---- MODULE Spec2Model ----
(***************************************************************************)
(* A model of the fox-lang tree-walking interpreter: values, the           *)
(* environment chain, callables and classes, the resolver and the          *)
(* evaluator.  Heap objects (Rc<RefCell<..>>) are addressed by their index *)
(* in a sequence, so that handle identity (Rc::ptr_eq) is index equality.  *)
(***************************************************************************)
EXTENDS Integers, Sequences, FiniteSets, TLC

VARIABLES
    interp,     \* the Interpreter: heap of environments, classes, instances, handles, side table
    pid,        \* which program of the corpus is being run
    phase,      \* position of the pipeline: "resolve", "run", "rejected", "failed", "done", ...
    ip,         \* number of top-level statements already executed by interpret
    outcome,    \* the FoxResult of the last pipeline step
    lastOp,     \* history: the last Environment operation applied and its arguments
    operands,   \* inputs of the expression under evaluation (binary specification)
    scanner,    \* the Scanner: source, cursors, line, and the tokens scan_tokens collected
    parser      \* the Parser: tokens, cursor, and the statements parse collected

vars == <<interp, pid, phase, ip, outcome, lastOp, operands, scanner, parser>>

(***************************************************************************)
(* Bounds of the model                                                     *)
(***************************************************************************)
MaxEnvs == 3        \* environments on the heap of the environment specification
MaxNum == 2         \* numbers are drawn from -MaxNum..MaxNum
MaxSrc == 4         \* characters of a source of the scanner specification
MaxLexemes == 2     \* lexemes of a source made of lexemes and whitespace

(***************************************************************************)
(* Option and FoxResult                                                    *)
(***************************************************************************)
None == [t |-> "None"]
IsNone(x) == x = None
Unit == [t |-> "Unit"]

Ok(v) == [ok |-> TRUE, v |-> v]
Err(e) == [ok |-> FALSE, err |-> e]

(***************************************************************************)
(* Tokens: kind, lexeme and source location                                *)
(***************************************************************************)
Token(token_type, lexeme, loc) ==
    [token_type |-> token_type, lexeme |-> lexeme, loc |-> loc]

Ident(lexeme, loc) == Token("Identifier", lexeme, loc)

KEYWORD_THIS == "this"
KEYWORD_SUPER == "super"
INITIALIZER_NAME == "init"

(***************************************************************************)
(* Errors                                                                  *)
(***************************************************************************)
FoxError_token(kind, msg, token) == [kind |-> kind, msg |-> msg, token |-> token]
FoxError_runtime(token, msg) == FoxError_token("Runtime", msg, token)
FoxError_resolver(token, msg) == FoxError_token("Resolver", msg, token)
FoxError_bug(msg) == FoxError_token("Bug", msg, None)
FoxError_return(value) == [kind |-> "Return", value |-> value]

(***************************************************************************)
(* Values (Object).  A number is an exact rational num/den in lowest terms *)
(* with den > 0; den = 0 stands for the IEEE results of a division by zero *)
(* (num = 1: +inf, num = -1: -inf, num = 0: NaN).                          *)
(***************************************************************************)
Nil == [t |-> "Nil"]
Double(n, d) == [t |-> "Double", num |-> n, den |-> d]
Num(n) == Double(n, 1)
Text(s) == [t |-> "Text", s |-> s]
Bool(b) == [t |-> "Bool", b |-> b]
BuiltinCallee(body, arity) == [t |-> "BuiltinCallee", body |-> body, arity |-> arity]
Callee(decl, closure, is_initializer) ==
    [t |-> "Callee", decl |-> decl, closure |-> closure, is_initializer |-> is_initializer]
Class(meta) == [t |-> "Class", meta |-> meta]
Instance(inst) == [t |-> "Instance", inst |-> inst]

BuiltinFunc_clock == BuiltinCallee("clock", 0)

(***************************************************************************)
(* HashMap<String, _> as a function from a finite set of strings           *)
(***************************************************************************)
EmptyMap == [k \in {} |-> Nil]
contains_key(map, key) == key \in DOMAIN map
insert(map, key, value) ==
    [k \in (DOMAIN map) \cup {key} |-> IF k = key THEN value ELSE map[k]]

(***************************************************************************)
(* Environment chain.  envs is the heap: envs[e] is the environment behind *)
(* handle e; enclosing = 0 is Option::None.                                *)
(***************************************************************************)
Environment_with(enclosing) == [values |-> EmptyMap, enclosing |-> enclosing]
Environment_new == Environment_with(0)

Environment_define(envs, e, name, object) ==
    [envs EXCEPT ![e].values = insert(@, name, object)]

RECURSIVE Environment_assign_creates(_, _, _, _)
Environment_assign_creates(envs, e, name, value) ==
    LET key == name.lexeme IN
    IF contains_key(envs[e].values, key)
        THEN [envs |-> Environment_define(envs, e, key, value), r |-> Ok(Unit)]
    ELSE IF envs[e].enclosing /= 0
        THEN Environment_assign_creates(envs, envs[e].enclosing, name, value)
    ELSE [envs |-> Environment_define(envs, e, key, value), r |-> Ok(Unit)]

RECURSIVE Environment_assign(_, _, _, _)
Environment_assign(envs, e, name, value) ==
    LET key == name.lexeme IN
    IF contains_key(envs[e].values, key)
        THEN [envs |-> Environment_define(envs, e, key, value), r |-> Ok(Unit)]
    ELSE IF envs[e].enclosing /= 0
        THEN Environment_assign(envs, envs[e].enclosing, name, value)
    ELSE [envs |-> envs,
          r |-> Err(FoxError_token("UndefinedVariable", key, name))]

RECURSIVE Environment_get(_, _, _)
Environment_get(envs, e, token) ==
    IF contains_key(envs[e].values, token.lexeme)
        THEN Ok(envs[e].values[token.lexeme])
    ELSE IF envs[e].enclosing /= 0
        THEN Environment_get(envs, envs[e].enclosing, token)
    ELSE Err(FoxError_token("UndefinedVariable", token.lexeme, token))

RECURSIVE Environment_hop(_, _, _)
Environment_hop(envs, ptr, n) ==
    IF n = 0 \/ ptr = 0 THEN ptr ELSE Environment_hop(envs, envs[ptr].enclosing, n - 1)

Environment_traverse_enclosing(envs, e, depth) ==
    IF depth = 0
        THEN Err(FoxError_resolver(None, "Zero depth isn't applicable for ancestor environments"))
    ELSE LET last == Environment_hop(envs, envs[e].enclosing, depth - 1)
             \* the loop fails as soon as the pointer is None before its last hop
             early == \E k \in 0..(depth - 2) : Environment_hop(envs, envs[e].enclosing, k) = 0
         IN  IF depth >= 2 /\ early
                 THEN Err(FoxError_resolver(None, "Invalid depth: Ancestor environment not found"))
             ELSE IF last = 0
                 THEN Err(FoxError_resolver(None,
                          "Invalid depth: Environment at specified distance not found"))
             ELSE Ok(last)

Environment_get_at_walks(envs, e, distance, name) ==
    LET from == Environment_hop(envs, e, distance) IN
    IF from = 0 THEN Err(FoxError_resolver(None, "Object not found"))
    ELSE LET found == Environment_get(envs, from, Ident(name, 0)) IN
         IF found.ok THEN found ELSE Err(FoxError_resolver(None, "Object not found"))

Environment_get_at(envs, e, distance, name) ==
    IF distance = 0
        THEN IF contains_key(envs[e].values, name)
                 THEN Ok(envs[e].values[name])
                 ELSE Err(FoxError_resolver(None, "Object not found"))
    ELSE LET enclosing == Environment_traverse_enclosing(envs, e, distance) IN
         IF ~enclosing.ok THEN enclosing
         ELSE IF contains_key(envs[enclosing.v].values, name)
             THEN Ok(envs[enclosing.v].values[name])
             ELSE Err(FoxError_resolver(None, "Object not found"))

Environment_assign_at(envs, e, distance, name, value) ==
    IF distance = 0
        THEN [envs |-> Environment_define(envs, e, name.lexeme, value), r |-> Ok(Unit)]
    ELSE LET enclosing == Environment_traverse_enclosing(envs, e, distance) IN
         IF ~enclosing.ok THEN [envs |-> envs, r |-> enclosing]
         ELSE [envs |-> Environment_define(envs, enclosing.v, name.lexeme, value),
               r |-> Ok(Unit)]

(***************************************************************************)
(* Object: truthiness and equality                                         *)
(***************************************************************************)
Object_is_true(o) ==
    CASE o.t = "Nil" -> FALSE
      [] o.t = "Bool" -> o.b
      [] OTHER -> TRUE

\* impl PartialEq for BuiltinFunc: same body pointer and same arity
BuiltinFunc_eq(l, r) == l.body = r.body /\ l.arity = r.arity

\* impl PartialEq for Func: same declaration, same closure handle, same flag
Func_eq(l, r) ==
    /\ l.decl = r.decl
    /\ l.closure = r.closure
    /\ l.is_initializer = r.is_initializer

\* impl PartialEq for Object
Object_eq(l, r) ==
    CASE l.t = "Nil" /\ r.t = "Nil" -> TRUE
      [] l.t = "Double" /\ r.t = "Double" ->
            \* IEEE: NaN (0/0) is not equal to anything
            /\ ~(l.num = 0 /\ l.den = 0)
            /\ l.num = r.num /\ l.den = r.den
      [] l.t = "Text" /\ r.t = "Text" -> l.s = r.s
      [] l.t = "Bool" /\ r.t = "Bool" -> l.b = r.b
      [] l.t = "Callee" /\ r.t = "Callee" -> Func_eq(l, r)
      [] OTHER -> FALSE

(***************************************************************************)
(* Object: arithmetic and ordering of numbers, concatenation of strings.   *)
(* Each returns Result<Object, String>.                                    *)
(***************************************************************************)
Abs(n) == IF n < 0 THEN -n ELSE n
Sign(n) == IF n < 0 THEN -1 ELSE IF n = 0 THEN 0 ELSE 1

RECURSIVE GCD(_, _)
GCD(a, b) == IF b = 0 THEN a ELSE GCD(b, a % b)

\* the number n/d in lowest terms (d = 0: the IEEE result of dividing by zero)
Rational(n, d) ==
    IF d = 0 THEN Double(Sign(n), 0)
    ELSE LET g == GCD(Abs(n), Abs(d)) IN Double(Sign(d) * (n \div g), Abs(d) \div g)

IsFinite(o) == o.t = "Double" /\ o.den > 0
BothNumbers(l, r) == IsFinite(l) /\ IsFinite(r)
TypeMismatch == Err("Operands must be numbers")

Object_plus(l, r) ==
    CASE BothNumbers(l, r) -> Ok(Rational(l.num * r.den + r.num * l.den, l.den * r.den))
      [] l.t = "Text" /\ r.t = "Text" -> Ok([t |-> "Text", s |-> l.s \o r.s])
      [] ~(l.t = "Double" /\ r.t = "Double") /\ ~(l.t = "Text" /\ r.t = "Text") -> TypeMismatch

Object_minus(l, r) ==
    CASE BothNumbers(l, r) -> Ok(Rational(l.num * r.den - r.num * l.den, l.den * r.den))
      [] ~(l.t = "Double" /\ r.t = "Double") -> TypeMismatch

Object_multiply(l, r) ==
    CASE BothNumbers(l, r) -> Ok(Rational(l.num * r.num, l.den * r.den))
      [] ~(l.t = "Double" /\ r.t = "Double") -> TypeMismatch

Object_divide(l, r) ==
    CASE BothNumbers(l, r) -> Ok(Rational(l.num * r.den, l.den * r.num))
      [] ~(l.t = "Double" /\ r.t = "Double") -> TypeMismatch

Object_greater(l, r) ==
    CASE BothNumbers(l, r) -> Ok(Bool(l.num * r.den > r.num * l.den))
      [] ~(l.t = "Double" /\ r.t = "Double") -> TypeMismatch

Object_greater_equal(l, r) ==
    CASE BothNumbers(l, r) -> Ok(Bool(l.num * r.den >= r.num * l.den))
      [] ~(l.t = "Double" /\ r.t = "Double") -> TypeMismatch

Object_less(l, r) ==
    CASE BothNumbers(l, r) -> Ok(Bool(l.num * r.den < r.num * l.den))
      [] ~(l.t = "Double" /\ r.t = "Double") -> TypeMismatch

Object_less_equal(l, r) ==
    CASE BothNumbers(l, r) -> Ok(Bool(l.num * r.den <= r.num * l.den))
      [] ~(l.t = "Double" /\ r.t = "Double") -> TypeMismatch

(***************************************************************************)
(* AST: expressions and statements.  The loc of a token tells two          *)
(* occurrences of the same text apart, as the token's code location does.  *)
(***************************************************************************)
Literal(value) == [type |-> "Literal", value |-> value]
Variable(name) == [type |-> "Variable", name |-> name]
Assign(name, value) == [type |-> "Assign", name |-> name, value |-> value]
Binary(left, operator, right) ==
    [type |-> "Binary", left |-> left, operator |-> operator, right |-> right]
Logical(left, operator, right) ==
    [type |-> "Logical", left |-> left, operator |-> operator, right |-> right]
Unary(expression, operator) ==
    [type |-> "Unary", expression |-> expression, operator |-> operator]
Grouping(expression) == [type |-> "Grouping", expression |-> expression]
Call(callee, paren, arguments) ==
    [type |-> "Call", callee |-> callee, paren |-> paren, arguments |-> arguments]
Get(object, name) == [type |-> "Get", object |-> object, name |-> name]
Set(object, name, value) == [type |-> "Set", object |-> object, name |-> name, value |-> value]
This(keyword) == [type |-> "This", keyword |-> keyword]
Super(keyword, method) == [type |-> "Super", keyword |-> keyword, method |-> method]

BlockStmt(statements) == [type |-> "Block", statements |-> statements]
ClassStmt(name, superclass, methods) ==
    [type |-> "Class", name |-> name, superclass |-> superclass, methods |-> methods]
ExpressionStmt(expression) == [type |-> "Expression", expression |-> expression]
FunctionStmt(name, params, body) ==
    [type |-> "Function", name |-> name, params |-> params, body |-> body]
IfStmt(condition, then_branch, else_branch) ==
    [type |-> "If", condition |-> condition, then_branch |-> then_branch,
     else_branch |-> else_branch]
PrintStmt(expression) == [type |-> "Print", expression |-> expression]
ReturnStmt(keyword, value) == [type |-> "Return", keyword |-> keyword, value |-> value]
VarStmt(name, initializer) == [type |-> "Var", name |-> name, initializer |-> initializer]
WhileStmt(condition, body) == [type |-> "While", condition |-> condition, body |-> body]

(***************************************************************************)
(* Callables, metaclasses and instances.  classes and instances are heaps  *)
(* (Rc<MetaClass>, Rc<RefCell<ClassInstance>>) like envs.                  *)
(***************************************************************************)
Func_arity(func) == Len(func.decl.params)

\* Func::bind: a fresh environment, child of the closure, holding "this"
Func_bind(envs, func, instance) ==
    LET env == [values |-> insert(EmptyMap, KEYWORD_THIS, Instance(instance)),
                enclosing |-> func.closure]
    IN  [envs |-> Append(envs, env),
         func |-> Callee(func.decl, Len(envs) + 1, func.is_initializer)]

MetaClass_new(name, superclass, methods) ==
    [name |-> name, superclass |-> superclass, methods |-> methods]

MetaClass_find_method(classes, meta, name) ==
    IF contains_key(classes[meta].methods, name) THEN classes[meta].methods[name] ELSE None

MetaClass_arity(classes, meta) ==
    LET method == MetaClass_find_method(classes, meta, INITIALIZER_NAME) IN
    IF IsNone(method) THEN 0 ELSE Func_arity(method)

ClassInstance_new(meta) == [meta_class_ref |-> meta, fields |-> EmptyMap]

(***************************************************************************)
(* The Interpreter.  A state s of the evaluator is a record; every visit   *)
(* operator returns the state it leaves and its FoxResult.  s.log is a     *)
(* history of observations (it is written, never read, by the evaluator).  *)
(***************************************************************************)
ClockSeconds == 1

Ret(s, r) == [s |-> s, r |-> r]

\* the ? operator on the result of a visit: an Err is returned as it is, an Ok value
\* goes on, with the state the visit left
Try(res, K(_, _)) == IF ~res.r.ok THEN res ELSE K(res.s, res.r.v)
\* a let binding of a result that is used more than once
With(x, F(_)) == F(x)
Logged(s, event) == [s EXCEPT !.log = Append(@, event)]

Interpreter_new ==
    [envs |-> <<[values |-> insert(EmptyMap, "clock", BuiltinFunc_clock), enclosing |-> 0]>>,
     classes |-> <<>>,
     instances |-> <<>>,
     environment |-> 1,
     globals |-> 1,
     locals |-> EmptyMap,
     out |-> <<>>,
     log |-> <<>>]

\* Interpreter::resolve: record the depth of an expression in the side table
Interpreter_resolve(locals, expr, depth) == insert(locals, expr, depth)

RECURSIVE evaluate(_, _)
RECURSIVE execute(_, _)

RECURSIVE execute_statements(_, _, _)
execute_statements(s, statements, i) ==
    IF i > Len(statements) THEN Ret(s, Ok(Unit))
    ELSE Try(execute(s, statements[i]),
             LAMBDA s1, v : execute_statements(s1, statements, i + 1))

execute_block_leaks(s, statements, env) ==
    With(execute_statements([s EXCEPT !.envs = Append(@, env),
                                      !.environment = Len(s.envs) + 1], statements, 1),
         LAMBDA res : IF ~res.r.ok THEN res
                      ELSE Ret([res.s EXCEPT !.environment = s.environment], res.r))

execute_block(s, statements, env) ==
    With(execute_statements([s EXCEPT !.envs = Append(@, env),
                                      !.environment = Len(s.envs) + 1], statements, 1),
         LAMBDA res : Ret([res.s EXCEPT !.environment = s.environment], res.r))

func_arity_check(token, arity, args) ==
    IF Len(args) /= arity
        THEN Err(FoxError_runtime(token, "Expected arity arguments but got another count"))
        ELSE Ok(Unit)

\* the environment of a call: child of the closure, parameters bound to arguments
RECURSIVE define_params(_, _, _, _)
define_params(env, params, args, i) ==
    IF i > Len(params) \/ i > Len(args) THEN env
    ELSE define_params([env EXCEPT !.values = insert(@, params[i].lexeme, args[i])],
                       params, args, i + 1)

\* the history entry of a call: the result of the body, the result of the call and
\* the environment handle before and after
CallEvent(s, func, res, out) ==
    [ev |-> "call", name |-> func.decl.name.lexeme,
     is_initializer |-> func.is_initializer, closure |-> func.closure,
     body |-> res.r, result |-> out,
     before |-> s.environment, after |-> res.s.environment]

func_execute_plain(s, func, args) ==
    With(execute_block(s, func.decl.body,
                       define_params(Environment_with(func.closure), func.decl.params,
                                     args, 1)),
         LAMBDA res :
           LET out == IF ~res.r.ok
                          THEN IF res.r.err.kind = "Return" THEN Ok(res.r.err.value)
                               ELSE res.r
                          ELSE Ok(Nil)
           IN  Ret(Logged(res.s, CallEvent(s, func, res, out)), out))

func_execute_propagates(s, func, args) ==
    With(execute_block(s, func.decl.body,
                       define_params(Environment_with(func.closure), func.decl.params,
                                     args, 1)),
         LAMBDA res :
           LET out == IF ~res.r.ok THEN res.r
                      ELSE IF func.is_initializer
                          THEN Environment_get_at(res.s.envs, func.closure, 0, KEYWORD_THIS)
                          ELSE Ok(Nil)
           IN  Ret(Logged(res.s, CallEvent(s, func, res, out)), out))

func_execute_by_value(s, func, args) ==
    With(execute_block([s EXCEPT !.envs = Append(@, s.envs[func.closure])],
                       func.decl.body,
                       define_params(Environment_with(Len(s.envs) + 1), func.decl.params,
                                     args, 1)),
         LAMBDA res :
           LET out ==
                 IF ~res.r.ok
                     THEN CASE res.r.err.kind = "Return" /\ func.is_initializer ->
                                   Environment_get_at(res.s.envs, func.closure, 0,
                                                      KEYWORD_THIS)
                            [] res.r.err.kind = "Return" /\ ~func.is_initializer ->
                                   Ok(res.r.err.value)
                            [] OTHER -> res.r
                     ELSE IF func.is_initializer
                         THEN Environment_get_at(res.s.envs, func.closure, 0, KEYWORD_THIS)
                         ELSE Ok(Nil)
           IN  Ret(Logged(res.s, CallEvent(s, func, res, out)), out))

func_execute(s, func, args) ==
    With(execute_block(s, func.decl.body,
                       define_params(Environment_with(func.closure), func.decl.params,
                                     args, 1)),
         LAMBDA res :
           LET out ==
                 IF ~res.r.ok
                     THEN CASE res.r.err.kind = "Return" /\ func.is_initializer ->
                                   Environment_get_at(res.s.envs, func.closure, 0,
                                                      KEYWORD_THIS)
                            [] res.r.err.kind = "Return" /\ ~func.is_initializer ->
                                   Ok(res.r.err.value)
                            [] OTHER -> res.r
                     ELSE IF func.is_initializer
                         THEN Environment_get_at(res.s.envs, func.closure, 0, KEYWORD_THIS)
                         ELSE Ok(Nil)
           IN  Ret(Logged(res.s, CallEvent(s, func, res, out)), out))

\* a lookup by name from the current environment, whatever the resolver recorded
look_up_variable_dynamic(s, name, expr) ==
    Ret(s, Environment_get(s.envs, s.environment, name))

look_up_variable(s, name, expr) ==
    IF contains_key(s.locals, expr)
        THEN LET r == Environment_get_at(s.envs, s.environment, s.locals[expr], name.lexeme)
             IN  Ret(Logged(s, [ev |-> "lookup", kind |-> expr.type, name |-> name.lexeme,
                                depth |-> s.locals[expr], holds |-> r.ok]), r)
        ELSE Ret(s, Environment_get(s.envs, s.globals, name))

(***************************************************************************)
(* ExpressionVisitor for Interpreter                                       *)
(***************************************************************************)
binary_dispatch_strict(op, l, r) ==
    CASE op = "Minus" -> Object_minus(l, r)
      [] op = "Slash" -> Object_divide(l, r)
      [] op = "Star" -> Object_multiply(l, r)
      [] op = "Plus" -> Object_plus(l, r)
      [] op = "Greater" -> Object_greater(l, r)
      [] op = "GreaterEqual" -> Object_greater(l, r)
      [] op = "Less" -> Object_less(l, r)
      [] op = "LessEqual" -> Object_less(l, r)
      [] op = "BangEqual" -> Ok(Bool(~Object_eq(l, r)))
      [] op = "EqualEqual" -> Ok(Bool(Object_eq(l, r)))
      [] OTHER -> Err("Type mismatch")

\* the match of visit_binary on (operator, left, right)
binary_dispatch(op, l, r) ==
    CASE op = "Minus" -> Object_minus(l, r)
      [] op = "Slash" -> Object_divide(l, r)
      [] op = "Star" -> Object_multiply(l, r)
      [] op = "Plus" -> Object_plus(l, r)
      [] op = "Greater" -> Object_greater(l, r)
      [] op = "GreaterEqual" -> Object_greater_equal(l, r)
      [] op = "Less" -> Object_less(l, r)
      [] op = "LessEqual" -> Object_less_equal(l, r)
      [] op = "BangEqual" -> Ok(Bool(~Object_eq(l, r)))
      [] op = "EqualEqual" -> Ok(Bool(Object_eq(l, r)))
      [] OTHER -> Err("Type mismatch")

visit_binary(s, data) ==
    Try(evaluate(s, data.left), LAMBDA s1, left :
    Try(evaluate(s1, data.right), LAMBDA s2, right :
        LET result == binary_dispatch(data.operator.token_type, left, right)
        IN  IF result.ok THEN Ret(s2, result)
            ELSE Ret(s2, Err(FoxError_runtime(data.operator, result.err)))))

visit_grouping(s, data) == evaluate(s, data.expression)

visit_literal(s, data) == Ret(s, Ok(data.value))

visit_unary(s, data) ==
    Try(evaluate(s, data.expression), LAMBDA s1, right :
        CASE data.operator.token_type = "Minus" /\ right.t = "Double" ->
                 Ret(s1, Ok(Double(-right.num, right.den)))
          [] data.operator.token_type = "Minus" /\ right.t /= "Double" ->
                 Ret(s1, Err(FoxError_token("OperandMustBeNumber", "", data.operator)))
          [] data.operator.token_type = "Bang" ->
                 Ret(s1, Ok(Bool(~Object_is_true(right)))))

visit_variable(s, data) == look_up_variable(s, data.name, data)

visit_assign(s, data) ==
    Try(evaluate(s, data.value), LAMBDA s1, value :
        IF contains_key(s1.locals, data)
            THEN LET distance == s1.locals[data]
                     target == IF distance = 0 THEN Ok(s1.environment)
                               ELSE Environment_traverse_enclosing(s1.envs, s1.environment,
                                                                   distance)
                     res == Environment_assign_at(s1.envs, s1.environment, distance,
                                                  data.name, value)
                     s2 == Logged([s1 EXCEPT !.envs = res.envs],
                                  [ev |-> "lookup", kind |-> "Assign",
                                   name |-> data.name.lexeme, depth |-> distance,
                                   holds |-> /\ target.ok
                                             /\ contains_key(s1.envs[target.v].values,
                                                             data.name.lexeme)])
                 IN  IF ~res.r.ok THEN Ret(s2, res.r) ELSE Ret(s2, Ok(value))
            ELSE LET res == Environment_assign(s1.envs, s1.globals, data.name, value)
                 IN  IF ~res.r.ok THEN Ret(s1, res.r)
                     ELSE Ret([s1 EXCEPT !.envs = res.envs], Ok(value)))

visit_logical_eager(s, data) ==
    Try(evaluate(s, data.left), LAMBDA s1, left :
    Try(evaluate(s1, data.right), LAMBDA s2, right :
        CASE data.operator.token_type = "Or" /\ Object_is_true(left) -> Ret(s2, Ok(left))
          [] data.operator.token_type = "And" /\ ~Object_is_true(left) -> Ret(s2, Ok(left))
          [] OTHER -> Ret(s2, Ok(right))))

visit_logical(s, data) ==
    Try(evaluate(s, data.left), LAMBDA s1, left :
        CASE data.operator.token_type = "Or" /\ Object_is_true(left) -> Ret(s1, Ok(left))
          [] data.operator.token_type = "And" /\ ~Object_is_true(left) -> Ret(s1, Ok(left))
          [] OTHER -> evaluate(s1, data.right))

\* the loop of visit_call over the arguments, left to right
RECURSIVE evaluate_arguments(_, _, _, _)
evaluate_arguments(s, arguments, i, args) ==
    IF i > Len(arguments) THEN Ret(s, Ok(args))
    ELSE Try(evaluate(s, arguments[i]),
             LAMBDA s1, v : evaluate_arguments(s1, arguments, i + 1, Append(args, v)))

\* MetaClass::constructor: the fresh instance and the initializer bound to it
MetaClass_constructor(s, meta) ==
    LET instance == Len(s.instances) + 1
        s1 == [s EXCEPT !.instances = Append(@, ClassInstance_new(meta))]
        init == MetaClass_find_method(s1.classes, meta, INITIALIZER_NAME)
        bound == Func_bind(s1.envs, init, instance)
    IN  IF IsNone(init)
            THEN [s |-> s1, initializer |-> None, instance |-> instance]
            ELSE [s |-> [s1 EXCEPT !.envs = bound.envs],
                  initializer |-> bound.func, instance |-> instance]

\* the match of visit_call on the callee
call_dispatch(s, data, callee, args) ==
    CASE callee.t = "BuiltinCallee" ->
           Try(Ret(s, func_arity_check(data.paren, callee.arity, args)),
               LAMBDA s1, u : Ret(s1, Ok(Num(ClockSeconds))))
      [] callee.t = "Callee" ->
           Try(Ret(s, func_arity_check(data.paren, Func_arity(callee), args)),
               LAMBDA s1, u : func_execute(s1, callee, args))
      [] callee.t = "Class" ->
           Try(Ret(s, func_arity_check(data.paren, MetaClass_arity(s.classes, callee.meta),
                                       args)),
               LAMBDA s1, u :
                 With(MetaClass_constructor(s1, callee.meta), LAMBDA constructor :
                   IF IsNone(constructor.initializer)
                       THEN Ret(constructor.s, Ok(Instance(constructor.instance)))
                       ELSE Try(func_execute(constructor.s, constructor.initializer, args),
                                LAMBDA s2, v :
                                  Ret(s2, Ok(Instance(constructor.instance))))))
      [] OTHER ->
           Ret(s, Err(FoxError_runtime(data.paren, "Can only call functions and classes")))

visit_call(s, data) ==
    Try(evaluate(s, data.callee), LAMBDA s0, callee :
    Try(evaluate_arguments(s0, data.arguments, 1, <<>>), LAMBDA s1, args :
    With(call_dispatch(s1, data, callee, args), LAMBDA res :
        Ret(Logged(res.s, [ev |-> "called", callee |-> callee,
                           instances |-> Len(s1.instances), result |-> res.r]),
            res.r))))

\* ClassInstance::get: a field, else a method of the metaclass bound to the instance
ClassInstance_get(s, instance, name) ==
    LET lexeme == name.lexeme
        method == MetaClass_find_method(s.classes, s.instances[instance].meta_class_ref, lexeme)
        bound == Func_bind(s.envs, method, instance)
    IN  IF contains_key(s.instances[instance].fields, lexeme)
            THEN Ret(s, Ok(s.instances[instance].fields[lexeme]))
        ELSE IF ~IsNone(method)
            THEN Ret([s EXCEPT !.envs = bound.envs], Ok(bound.func))
        ELSE Ret(s, Err(FoxError_runtime(name, "Undefined property")))

visit_get(s, data) ==
    Try(evaluate(s, data.object), LAMBDA s1, object :
        IF object.t /= "Instance"
            THEN Ret(s1, Err(FoxError_runtime(data.name, "Only instances have properties")))
            ELSE ClassInstance_get(s1, object.inst, data.name))

visit_set(s, data) ==
    Try(evaluate(s, data.object), LAMBDA s1, object :
        IF object.t /= "Instance"
            THEN Ret(s1, Err(FoxError_runtime(data.name, "Only instances have fields")))
            ELSE Try(evaluate(s1, data.value), LAMBDA s2, value :
                     Ret([s2 EXCEPT !.instances[object.inst].fields =
                                        insert(@, data.name.lexeme, value)],
                         Ok(value))))

visit_this(s, data) == look_up_variable(s, data.keyword, data)

visit_super(s, data) ==
    IF ~contains_key(s.locals, data)
        THEN Ret(Logged(s, [ev |-> "super", method |-> data.method.lexeme, result |-> None]),
                 Err(FoxError_bug("Distance for super must be set")))
    ELSE LET distance == s.locals[data]
             superclass == Environment_get_at(s.envs, s.environment, distance, KEYWORD_SUPER)
             \* distance - 1 on usize: a distance of 0 does not reach a "this" environment
             object == IF distance = 0
                           THEN Err(FoxError_bug("attempt to subtract with overflow"))
                           ELSE Environment_get_at(s.envs, s.environment, distance - 1,
                                                   KEYWORD_THIS)
             method == MetaClass_find_method(s.classes, superclass.v.meta, data.method.lexeme)
             bound == Func_bind(s.envs, method, object.v.inst)
             failed(r) == Ret(Logged(s, [ev |-> "super", method |-> data.method.lexeme,
                                         result |-> None]), r)
         IN  IF ~superclass.ok THEN failed(superclass)
             ELSE IF superclass.v.t /= "Class"
                 THEN failed(Err(FoxError_bug("Expected MetaClass")))
             ELSE IF ~object.ok THEN failed(object)
             ELSE IF object.v.t /= "Instance"
                 THEN failed(Err(FoxError_bug("Expected class instance")))
             ELSE IF IsNone(method)
                 THEN failed(Err(FoxError_runtime(data.method, "Undefined property")))
             ELSE Ret(Logged([s EXCEPT !.envs = bound.envs],
                             [ev |-> "super", method |-> data.method.lexeme,
                              result |-> bound.func,
                              superclass |-> superclass.v.meta,
                              this |-> object.v.inst]),
                      Ok(bound.func))

(***************************************************************************)
(* StatementVisitor for Interpreter                                        *)
(***************************************************************************)
visit_expression(s, data) ==
    Try(evaluate(s, data.expression), LAMBDA s1, v : Ret(s1, Ok(Unit)))

visit_print(s, data) ==
    Try(evaluate(s, data.expression),
        LAMBDA s1, value : Ret([s1 EXCEPT !.out = Append(@, value)], Ok(Unit)))

visit_var(s, data) ==
    Try(IF ~IsNone(data.initializer) THEN evaluate(s, data.initializer) ELSE Ret(s, Ok(Nil)),
        LAMBDA s1, value :
          Ret([s1 EXCEPT !.envs = Environment_define(@, s1.environment, data.name.lexeme,
                                                     value)],
              Ok(Unit)))

\* a block run in an environment that has no enclosing environment
visit_block_detached(s, data) ==
    execute_block(s, data.statements, Environment_new)

visit_block(s, data) ==
    execute_block(s, data.statements, Environment_with(s.environment))

visit_if(s, data) ==
    Try(evaluate(s, data.condition), LAMBDA s1, condition :
        IF Object_is_true(condition) THEN execute(s1, data.then_branch)
        ELSE IF ~IsNone(data.else_branch) THEN execute(s1, data.else_branch)
        ELSE Ret(s1, Ok(Unit)))

RECURSIVE visit_while(_, _)
visit_while(s, data) ==
    Try(evaluate(s, data.condition), LAMBDA s1, condition :
        IF ~Object_is_true(condition) THEN Ret(s1, Ok(Unit))
        ELSE Try(execute(s1, data.body), LAMBDA s2, u : visit_while(s2, data)))

visit_function(s, data) ==
    Ret([s EXCEPT !.envs = Environment_define(@, s.environment, data.name.lexeme,
                                              Callee(data, s.environment, FALSE))],
        Ok(Unit))

visit_return(s, data) ==
    Try(IF ~IsNone(data.value) THEN evaluate(s, data.value) ELSE Ret(s, Ok(Nil)),
        LAMBDA s1, value : Ret(s1, Err(FoxError_return(value))))

\* the loop of visit_class over the method declarations
RECURSIVE class_methods(_, _, _, _)
class_methods(stmts, environment, i, methods) ==
    IF i > Len(stmts) THEN Ok(methods)
    ELSE IF stmts[i].type /= "Function" THEN Err(FoxError_bug("Expected function statement"))
    ELSE class_methods(stmts, environment, i + 1,
                       insert(methods, stmts[i].name.lexeme,
                              Callee(stmts[i], environment,
                                     stmts[i].name.lexeme = INITIALIZER_NAME)))

visit_class(s, data) ==
    Try(IF ~IsNone(data.superclass) THEN evaluate(s, data.superclass) ELSE Ret(s, Ok(None)),
        LAMBDA s0, eval :
          IF ~IsNone(data.superclass) /\ eval.t /= "Class"
              THEN Ret(s0, Err(FoxError_runtime(data.superclass.name,
                                                "Superclass must be a class")))
          ELSE LET has_super == ~IsNone(data.superclass)
                   superclass == IF has_super THEN eval.meta ELSE 0
                   s1 == [s0 EXCEPT !.envs = Environment_define(@, s0.environment,
                                                                data.name.lexeme, Nil)]
                   enclosing == s1.environment
                   s2 == IF has_super
                             THEN [s1 EXCEPT
                                     !.envs = Append(@,
                                         [values |-> insert(EmptyMap, KEYWORD_SUPER,
                                                            Class(superclass)),
                                          enclosing |-> enclosing]),
                                     !.environment = Len(s1.envs) + 1]
                             ELSE s1
                   methods == class_methods(data.methods, s2.environment, 1, EmptyMap)
               IN  IF ~methods.ok THEN Ret(s2, methods)
                   ELSE LET meta == Len(s2.classes) + 1
                            s3 == [s2 EXCEPT
                                     !.classes = Append(@, MetaClass_new(data.name.lexeme,
                                                             superclass, methods.v)),
                                     !.environment = IF has_super THEN enclosing ELSE @]
                            res == Environment_assign(s3.envs, s3.environment, data.name,
                                                      Class(meta))
                        IN  Ret([s3 EXCEPT !.envs = res.envs], res.r))

evaluate(s, expr) ==
    CASE expr.type = "Assign" -> visit_assign(s, expr)
      [] expr.type = "Binary" -> visit_binary(s, expr)
      [] expr.type = "Call" -> visit_call(s, expr)
      [] expr.type = "Get" -> visit_get(s, expr)
      [] expr.type = "Grouping" -> visit_grouping(s, expr)
      [] expr.type = "Literal" -> visit_literal(s, expr)
      [] expr.type = "Logical" -> visit_logical(s, expr)
      [] expr.type = "Set" -> visit_set(s, expr)
      [] expr.type = "Super" -> visit_super(s, expr)
      [] expr.type = "This" -> visit_this(s, expr)
      [] expr.type = "Unary" -> visit_unary(s, expr)
      [] expr.type = "Variable" -> visit_variable(s, expr)

\* Statement::accept
accept_statement(s, stmt) ==
    CASE stmt.type = "Block" -> visit_block(s, stmt)
      [] stmt.type = "Class" -> visit_class(s, stmt)
      [] stmt.type = "Expression" -> visit_expression(s, stmt)
      [] stmt.type = "Function" -> visit_function(s, stmt)
      [] stmt.type = "If" -> visit_if(s, stmt)
      [] stmt.type = "Print" -> visit_print(s, stmt)
      [] stmt.type = "Return" -> visit_return(s, stmt)
      [] stmt.type = "Var" -> visit_var(s, stmt)
      [] stmt.type = "While" -> visit_while(s, stmt)

\* Interpreter::execute; the history records the environment handle around the statement
execute(s, stmt) ==
    With(accept_statement(s, stmt), LAMBDA res :
        Ret(Logged(res.s, [ev |-> "scope", stmt |-> stmt.type, before |-> s.environment,
                           after |-> res.s.environment,
                           exit |-> IF res.r.ok THEN "ok" ELSE res.r.err.kind]),
            res.r))

(***************************************************************************)
(* The Resolver.  A resolver state R holds the scope stack, the kinds of   *)
(* the enclosing function and class, and the interpreter's side table      *)
(* (locals) that Interpreter::resolve fills.                               *)
(***************************************************************************)
Resolver_with(locals) ==
    [scopes |-> <<>>, current_function |-> "None", current_class |-> "None",
     locals |-> locals]

Resolver_begin_scope(R) == [R EXCEPT !.scopes = Append(@, EmptyMap)]
Resolver_end_scope(R) ==
    [R EXCEPT !.scopes = IF Len(@) = 0 THEN @ ELSE SubSeq(@, 1, Len(@) - 1)]

\* a declaration that looks for the name in every enclosing scope
Resolver_declare_any_scope(R, name) ==
    IF Len(R.scopes) = 0 THEN Ret(R, Ok(Unit))
    ELSE IF \E i \in 1..Len(R.scopes) : contains_key(R.scopes[i], name.lexeme)
        THEN Ret(R, Err(FoxError_resolver(name,
                            "Already a variable with this name in this scope")))
    ELSE Ret([R EXCEPT !.scopes[Len(R.scopes)] = insert(@, name.lexeme, FALSE)], Ok(Unit))

Resolver_declare(R, name) ==
    IF Len(R.scopes) = 0 THEN Ret(R, Ok(Unit))
    ELSE IF contains_key(R.scopes[Len(R.scopes)], name.lexeme)
        THEN Ret(R, Err(FoxError_resolver(name,
                            "Already a variable with this name in this scope")))
    ELSE Ret([R EXCEPT !.scopes[Len(R.scopes)] = insert(@, name.lexeme, FALSE)], Ok(Unit))

Resolver_define_by_lexeme(R, lexeme) ==
    IF Len(R.scopes) = 0 THEN R
    ELSE [R EXCEPT !.scopes[Len(R.scopes)] = insert(@, lexeme, TRUE)]

Resolver_define(R, name) == Resolver_define_by_lexeme(R, name.lexeme)

\* the innermost scope holding the name decides the depth; no scope: unresolved
Resolver_resolve_local(R, expr, name) ==
    LET holders == {i \in 1..Len(R.scopes) : contains_key(R.scopes[i], name.lexeme)} IN
    IF holders = {} THEN Ret(R, Ok(Unit))
    ELSE LET i == CHOOSE j \in holders : \A k \in holders : k <= j IN
         Ret([R EXCEPT !.locals = Interpreter_resolve(@, expr, Len(R.scopes) - i)], Ok(Unit))

RECURSIVE Resolver_resolve_expr(_, _)
RECURSIVE Resolver_resolve_stmt(_, _)

RECURSIVE Resolver_resolve_list(_, _, _)
Resolver_resolve_list(R, exprs, i) ==
    IF i > Len(exprs) THEN Ret(R, Ok(Unit))
    ELSE Try(Resolver_resolve_expr(R, exprs[i]),
             LAMBDA R1, u : Resolver_resolve_list(R1, exprs, i + 1))

RECURSIVE Resolver_resolve_statements_from(_, _, _)
Resolver_resolve_statements_from(R, statements, i) ==
    IF i > Len(statements) THEN Ret(R, Ok(Unit))
    ELSE Try(Resolver_resolve_stmt(R, statements[i]),
             LAMBDA R1, u : Resolver_resolve_statements_from(R1, statements, i + 1))

Resolver_resolve_statements(R, statements) ==
    Resolver_resolve_statements_from(R, statements, 1)

RECURSIVE Resolver_declare_params(_, _, _)
Resolver_declare_params(R, params, i) ==
    IF i > Len(params) THEN Ret(R, Ok(Unit))
    ELSE Try(Resolver_declare(R, params[i]),
             LAMBDA R1, u :
               Resolver_declare_params(Resolver_define(R1, params[i]), params, i + 1))

\* a function whose end leaves the enclosing-function kind as the function set it
Resolver_resolve_function_no_restore(R, func, func_type) ==
    Try(Resolver_declare_params(
            Resolver_begin_scope([R EXCEPT !.current_function = func_type]), func.params, 1),
        LAMBDA R1, u :
    Try(Resolver_resolve_statements(R1, func.body), LAMBDA R2, v :
        Ret(Resolver_end_scope(R2), Ok(Unit))))

Resolver_resolve_function(R, func, func_type) ==
    Try(Resolver_declare_params(
            Resolver_begin_scope([R EXCEPT !.current_function = func_type]), func.params, 1),
        LAMBDA R1, u :
    Try(Resolver_resolve_statements(R1, func.body), LAMBDA R2, v :
        Ret([Resolver_end_scope(R2) EXCEPT !.current_function = R.current_function],
            Ok(Unit))))

Resolver_visit_assign(R, data) ==
    Try(Resolver_resolve_expr(R, data.value),
        LAMBDA R1, u : Resolver_resolve_local(R1, data, data.name))

Resolver_visit_binary(R, data) ==
    Try(Resolver_resolve_expr(R, data.left),
        LAMBDA R1, u : Resolver_resolve_expr(R1, data.right))

Resolver_visit_call(R, data) ==
    Try(Resolver_resolve_expr(R, data.callee),
        LAMBDA R1, u : Resolver_resolve_list(R1, data.arguments, 1))

Resolver_visit_grouping(R, data) == Resolver_resolve_expr(R, data.expression)

Resolver_visit_literal(R, data) == Ret(R, Ok(Unit))

Resolver_visit_logical(R, data) ==
    Try(Resolver_resolve_expr(R, data.left),
        LAMBDA R1, u : Resolver_resolve_expr(R1, data.right))

Resolver_visit_unary(R, data) == Resolver_resolve_expr(R, data.expression)

\* a reference that is refused whenever the innermost scope holds the name,
\* defined or not
Resolver_visit_variable_any_state(R, data) ==
    IF /\ Len(R.scopes) > 0
       /\ contains_key(R.scopes[Len(R.scopes)], data.name.lexeme)
        THEN Ret(R, Err(FoxError_resolver(data.name,
                            "Can't read local variable in its own initializer")))
        ELSE Resolver_resolve_local(R, data, data.name)

Resolver_visit_variable(R, data) ==
    IF /\ Len(R.scopes) > 0
       /\ contains_key(R.scopes[Len(R.scopes)], data.name.lexeme)
       /\ R.scopes[Len(R.scopes)][data.name.lexeme] = FALSE
        THEN Ret(R, Err(FoxError_resolver(data.name,
                            "Can't read local variable in its own initializer")))
        ELSE Resolver_resolve_local(R, data, data.name)

Resolver_visit_get(R, data) == Resolver_resolve_expr(R, data.object)

Resolver_visit_set(R, data) ==
    Try(Resolver_resolve_expr(R, data.value),
        LAMBDA R1, u : Resolver_resolve_expr(R1, data.object))

Resolver_visit_this(R, data) ==
    IF R.current_class = "None"
        THEN Ret(R, Err(FoxError_runtime(data.keyword, "Can't use 'this' outside of a class")))
        ELSE Resolver_resolve_local(R, data, data.keyword)

\* Super: resolved as a variable reference to "super"
Resolver_visit_super(R, data) == Resolver_resolve_local(R, data, data.keyword)

Resolver_visit_block(R, data) ==
    Try(Resolver_resolve_statements(Resolver_begin_scope(R), data.statements),
        LAMBDA R1, u : Ret(Resolver_end_scope(R1), Ok(Unit)))

Resolver_visit_expression(R, data) == Resolver_resolve_expr(R, data.expression)

Resolver_visit_function(R, data) ==
    Try(Resolver_declare(R, data.name),
        LAMBDA R1, u : Resolver_resolve_function(Resolver_define(R1, data.name), data, "Func"))

Resolver_visit_if(R, data) ==
    Try(Resolver_resolve_expr(R, data.condition), LAMBDA R1, u :
    Try(Resolver_resolve_stmt(R1, data.then_branch), LAMBDA R2, v :
        IF ~IsNone(data.else_branch) THEN Resolver_resolve_stmt(R2, data.else_branch)
        ELSE Ret(R2, Ok(Unit))))

Resolver_visit_print(R, data) == Resolver_resolve_expr(R, data.expression)

Resolver_visit_return(R, data) ==
    IF R.current_function = "None"
        THEN Ret(R, Err(FoxError_resolver(data.keyword, "Can't return from top-level code")))
    ELSE IF ~IsNone(data.value)
        THEN IF R.current_function = "Initializer"
                 THEN Ret(R, Err(FoxError_runtime(data.keyword,
                                     "Can't return a value from an initializer")))
                 ELSE Resolver_resolve_expr(R, data.value)
    ELSE Ret(R, Ok(Unit))

Resolver_visit_var(R, data) ==
    Try(Resolver_declare(R, data.name), LAMBDA R1, u :
    Try(IF ~IsNone(data.initializer) THEN Resolver_resolve_expr(R1, data.initializer)
        ELSE Ret(R1, Ok(Unit)),
        LAMBDA R2, v : Ret(Resolver_define(R2, data.name), Ok(Unit))))

Resolver_visit_while(R, data) ==
    Try(Resolver_resolve_expr(R, data.condition),
        LAMBDA R1, u : Resolver_resolve_stmt(R1, data.body))

\* the loop of Resolver::visit_class over the methods
RECURSIVE Resolver_resolve_methods(_, _, _)
Resolver_resolve_methods(R, methods, i) ==
    IF i > Len(methods) THEN Ret(R, Ok(Unit))
    ELSE IF methods[i].type /= "Function"
        THEN Ret(R, Err(FoxError_bug("Expected function statement")))
    ELSE Try(Resolver_resolve_function(R, methods[i],
                 IF methods[i].name.lexeme = INITIALIZER_NAME THEN "Initializer"
                 ELSE "Method"),
             LAMBDA R1, u : Resolver_resolve_methods(R1, methods, i + 1))

Resolver_visit_class(R, data) ==
    Try(Resolver_declare([R EXCEPT !.current_class = "Class"], data.name), LAMBDA R1, u :
        IF ~IsNone(data.superclass) /\ data.superclass.type /= "Variable"
            THEN Ret(R1, Err(FoxError_bug("Expected variable expression")))
        ELSE IF ~IsNone(data.superclass) /\ data.superclass.name.lexeme = data.name.lexeme
            THEN Ret(R1, Err(FoxError_resolver(data.superclass.name,
                                 "A class can't inherit from itself")))
        ELSE Try(Resolver_resolve_methods(
                     Resolver_define_by_lexeme(
                         Resolver_begin_scope(Resolver_define(R1, data.name)), KEYWORD_THIS),
                     data.methods, 1),
                 LAMBDA R2, v :
                   Ret([Resolver_end_scope(R2) EXCEPT !.current_class = R.current_class],
                       Ok(Unit))))

Resolver_resolve_expr(R, expr) ==
    CASE expr.type = "Assign" -> Resolver_visit_assign(R, expr)
      [] expr.type = "Binary" -> Resolver_visit_binary(R, expr)
      [] expr.type = "Call" -> Resolver_visit_call(R, expr)
      [] expr.type = "Get" -> Resolver_visit_get(R, expr)
      [] expr.type = "Grouping" -> Resolver_visit_grouping(R, expr)
      [] expr.type = "Literal" -> Resolver_visit_literal(R, expr)
      [] expr.type = "Logical" -> Resolver_visit_logical(R, expr)
      [] expr.type = "Set" -> Resolver_visit_set(R, expr)
      [] expr.type = "Super" -> Resolver_visit_super(R, expr)
      [] expr.type = "This" -> Resolver_visit_this(R, expr)
      [] expr.type = "Unary" -> Resolver_visit_unary(R, expr)
      [] expr.type = "Variable" -> Resolver_visit_variable(R, expr)

Resolver_resolve_stmt(R, stmt) ==
    CASE stmt.type = "Block" -> Resolver_visit_block(R, stmt)
      [] stmt.type = "Class" -> Resolver_visit_class(R, stmt)
      [] stmt.type = "Expression" -> Resolver_visit_expression(R, stmt)
      [] stmt.type = "Function" -> Resolver_visit_function(R, stmt)
      [] stmt.type = "If" -> Resolver_visit_if(R, stmt)
      [] stmt.type = "Print" -> Resolver_visit_print(R, stmt)
      [] stmt.type = "Return" -> Resolver_visit_return(R, stmt)
      [] stmt.type = "Var" -> Resolver_visit_var(R, stmt)
      [] stmt.type = "While" -> Resolver_visit_while(R, stmt)

(***************************************************************************)
(* The corpus of programs (as the parser would deliver them).  A program   *)
(* is named by a record p: p.name selects the text, p.a, p.b, p.c select   *)
(* the literals and operators left open in it.                             *)
(***************************************************************************)
Var(lexeme, loc) == Variable(Ident(lexeme, loc))
Op(token_type, loc) == Token(token_type, token_type, loc)
Paren(loc) == Token("RightParenthesis", ")", loc)
CallOf(callee, loc, arguments) == Call(callee, Paren(loc), arguments)
ReturnOf(loc, value) == ReturnStmt(Token("Return", "return", loc), value)
ThisAt(loc) == This(Token("This", KEYWORD_THIS, loc))

LiteralValues == <<Nil, Bool(TRUE), Bool(FALSE), Num(0), Num(1), Text(""), Text("a")>>
LogicalOps == <<"Or", "And">>

\* fun counter() { var n = 0; fun inc() { n = n + 1; return n; } return inc; }
\* var c = counter(); print c(); print c(); print c();
ProgCounter ==
    <<FunctionStmt(Ident("counter", 1), <<>>,
        <<VarStmt(Ident("n", 2), Literal(Num(0))),
          FunctionStmt(Ident("inc", 3), <<>>,
            <<ExpressionStmt(Assign(Ident("n", 4),
                                    Binary(Var("n", 5), Op("Plus", 6), Literal(Num(1))))),
              ReturnOf(7, Var("n", 8))>>),
          ReturnOf(9, Var("inc", 10))>>),
      VarStmt(Ident("c", 11), CallOf(Var("counter", 12), 13, <<>>)),
      PrintStmt(CallOf(Var("c", 14), 15, <<>>)),
      PrintStmt(CallOf(Var("c", 16), 17, <<>>)),
      PrintStmt(CallOf(Var("c", 18), 19, <<>>))>>

\* var g; var i;
\* fun make() { var n = 0; fun inc() { n = n + 1; } fun get() { return n; } g = get; i = inc; }
\* make(); print g(); i(); print g(); i(); print g();
ProgShared ==
    <<VarStmt(Ident("g", 1), None),
      VarStmt(Ident("i", 2), None),
      FunctionStmt(Ident("make", 3), <<>>,
        <<VarStmt(Ident("n", 4), Literal(Num(0))),
          FunctionStmt(Ident("inc", 5), <<>>,
            <<ExpressionStmt(Assign(Ident("n", 6),
                                    Binary(Var("n", 7), Op("Plus", 8), Literal(Num(1)))))>>),
          FunctionStmt(Ident("get", 9), <<>>, <<ReturnOf(10, Var("n", 11))>>),
          ExpressionStmt(Assign(Ident("g", 12), Var("get", 13))),
          ExpressionStmt(Assign(Ident("i", 14), Var("inc", 15)))>>),
      ExpressionStmt(CallOf(Var("make", 16), 17, <<>>)),
      PrintStmt(CallOf(Var("g", 18), 19, <<>>)),
      ExpressionStmt(CallOf(Var("i", 20), 21, <<>>)),
      PrintStmt(CallOf(Var("g", 22), 23, <<>>)),
      ExpressionStmt(CallOf(Var("i", 24), 25, <<>>)),
      PrintStmt(CallOf(Var("g", 26), 27, <<>>))>>

\* fun f(n) { var i = 0;
\*            while (true) { { if (i == n) { return i; } } i = i + 1; }
\*            print "unreachable"; }
\* print f(a); print "after";
ProgNestedReturn(a) ==
    <<FunctionStmt(Ident("f", 1), <<Ident("n", 2)>>,
        <<VarStmt(Ident("i", 3), Literal(Num(0))),
          WhileStmt(Literal(Bool(TRUE)),
            BlockStmt(
              <<BlockStmt(
                  <<IfStmt(Binary(Var("i", 4), Op("EqualEqual", 5), Var("n", 6)),
                           BlockStmt(<<ReturnOf(7, Var("i", 8))>>), None)>>),
                ExpressionStmt(Assign(Ident("i", 9),
                                      Binary(Var("i", 10), Op("Plus", 11), Literal(Num(1)))))>>)),
          PrintStmt(Literal(Text("unreachable")))>>),
      PrintStmt(CallOf(Var("f", 12), 13, <<Literal(Num(a))>>)),
      PrintStmt(Literal(Text("after")))>>

\* fun f() { { return; } print "unreachable"; }  print f();
ProgBareReturn ==
    <<FunctionStmt(Ident("f", 1), <<>>,
        <<BlockStmt(<<ReturnOf(2, None)>>),
          PrintStmt(Literal(Text("unreachable")))>>),
      PrintStmt(CallOf(Var("f", 3), 4, <<>>))>>

\* class A {}  class B < A {}
\* fun f() { { return 1; } }
\* fun g() { var x = 1; { { print nil - x; } } print "unreachable"; }
\* f();  { g(); }  print "unreachable";
ProgErrorInBlock ==
    <<ClassStmt(Ident("A", 1), None, <<>>),
      ClassStmt(Ident("B", 2), Var("A", 3), <<>>),
      FunctionStmt(Ident("f", 4), <<>>, <<BlockStmt(<<ReturnOf(5, Literal(Num(1)))>>)>>),
      FunctionStmt(Ident("g", 6), <<>>,
        <<VarStmt(Ident("x", 7), Literal(Num(1))),
          BlockStmt(<<BlockStmt(
              <<PrintStmt(Binary(Literal(Nil), Op("Minus", 8), Var("x", 9)))>>)>>),
          PrintStmt(Literal(Text("unreachable")))>>),
      ExpressionStmt(CallOf(Var("f", 10), 11, <<>>)),
      BlockStmt(<<ExpressionStmt(CallOf(Var("g", 12), 13, <<>>))>>),
      PrintStmt(Literal(Text("unreachable")))>>

\* a = 0:  return;            a = 1:  fun f() { return 1; } { return; }
ProgTopReturn(a) ==
    IF a = 0 THEN <<ReturnOf(1, None)>>
    ELSE <<FunctionStmt(Ident("f", 1), <<>>, <<ReturnOf(2, Literal(Num(1)))>>),
           BlockStmt(<<ReturnOf(3, None)>>)>>

\* var a = 1; { var a = 2; print a; } print a;
ProgShadow ==
    <<VarStmt(Ident("a", 1), Literal(Num(1))),
      BlockStmt(<<VarStmt(Ident("a", 2), Literal(Num(2))), PrintStmt(Var("a", 3))>>),
      PrintStmt(Var("a", 4))>>

\* class Box { init(v) { this.v = v; if (v == 0) { return; } this.w = v; } }
\* var b = Box(a); var r = b.init(c); r.z = 5; print b.z; print b.v;
ProgClassInit(a, c) ==
    <<ClassStmt(Ident("Box", 1), None,
        <<FunctionStmt(Ident(INITIALIZER_NAME, 2), <<Ident("v", 3)>>,
            <<ExpressionStmt(Set(ThisAt(4), Ident("v", 5), Var("v", 6))),
              IfStmt(Binary(Var("v", 7), Op("EqualEqual", 8), Literal(Num(0))),
                     BlockStmt(<<ReturnOf(9, None)>>), None),
              ExpressionStmt(Set(ThisAt(10), Ident("w", 11), Var("v", 12)))>>)>>),
      VarStmt(Ident("b", 13), CallOf(Var("Box", 14), 15, <<Literal(Num(a))>>)),
      VarStmt(Ident("r", 16),
              CallOf(Get(Var("b", 17), Ident(INITIALIZER_NAME, 18)), 19, <<Literal(Num(c))>>)),
      ExpressionStmt(Set(Var("r", 20), Ident("z", 21), Literal(Num(5)))),
      PrintStmt(Get(Var("b", 22), Ident("z", 23))),
      PrintStmt(Get(Var("b", 24), Ident("v", 25)))>>

\* class A { name() { return "A"; } }
\* class B < A { name() { return super.name() + "B"; } }
\* print B().name();
ProgSuperCall ==
    <<ClassStmt(Ident("A", 1), None,
        <<FunctionStmt(Ident("name", 2), <<>>, <<ReturnOf(3, Literal(Text("A")))>>)>>),
      ClassStmt(Ident("B", 4), Var("A", 5),
        <<FunctionStmt(Ident("name", 6), <<>>,
            <<ReturnOf(7, Binary(CallOf(Super(Token("Super", KEYWORD_SUPER, 8),
                                              Ident("name", 9)), 10, <<>>),
                                 Op("Plus", 11), Literal(Text("B"))))>>)>>),
      PrintStmt(CallOf(Get(CallOf(Var("B", 12), 13, <<>>), Ident("name", 14)), 15, <<>>))>>

\* class A {}
\* { var x = 1;
\*   class B [< A] { m() { return x; }  w() { x = 2; return this; } }
\*   [B().w();]  print B().m();  B().w();  print x; }
\* a = 0: B has no superclass; a >= 1: B has the superclass A; a = 1: w is called first
ProgLocalClass(a) ==
    <<ClassStmt(Ident("A", 1), None, <<>>),
      BlockStmt(
        <<VarStmt(Ident("x", 2), Literal(Num(1))),
          ClassStmt(Ident("B", 3), IF a >= 1 THEN Var("A", 4) ELSE None,
            <<FunctionStmt(Ident("m", 5), <<>>, <<ReturnOf(6, Var("x", 7))>>),
              FunctionStmt(Ident("w", 8), <<>>,
                <<ExpressionStmt(Assign(Ident("x", 9), Literal(Num(2)))),
                  ReturnOf(10, ThisAt(11))>>)>>),
          IfStmt(Literal(Bool(a = 1)),
                 ExpressionStmt(CallOf(Get(CallOf(Var("B", 12), 13, <<>>), Ident("w", 14)),
                                       15, <<>>)),
                 None),
          PrintStmt(CallOf(Get(CallOf(Var("B", 16), 17, <<>>), Ident("m", 18)), 19, <<>>)),
          ExpressionStmt(CallOf(Get(CallOf(Var("B", 20), 21, <<>>), Ident("w", 22)), 23, <<>>)),
          PrintStmt(Var("x", 24))>>)>>

\* fun side() { print "side"; return <b>; }   print <a> <op> side();
ProgLogical(a, b, c) ==
    <<FunctionStmt(Ident("side", 1), <<>>,
        <<PrintStmt(Literal(Text("side"))), ReturnOf(2, Literal(LiteralValues[b]))>>),
      PrintStmt(Logical(Literal(LiteralValues[a]), Op(LogicalOps[c], 3),
                        CallOf(Var("side", 4), 5, <<>>)))>>

\* two declarations, the first of the name x and the second of x or y, each a
\* variable, a function, a class or a parameter: in one block or function
\* scope ("same"), the second in a scope nested in the first's ("nested"), or
\* both at the top level ("global")
DeclKinds == {"var", "fun", "class", "param"}
DeclPlaces == {"same", "nested", "global"}
DeclNames == {"x", "y"}

Declaration(kind, name) ==
    CASE kind = "var" -> VarStmt(name, None)
      [] kind = "fun" -> FunctionStmt(name, <<>>, <<>>)
      [] kind = "class" -> ClassStmt(name, None, <<>>)

ProgDeclare(first, second, place, lexeme) ==
    LET n1 == Ident("x", 1)
        n2 == Ident(lexeme, 2)
        f == Ident("f", 3)
        g == Ident("g", 4)
    IN  IF first /= "param" /\ second /= "param" THEN
            CASE place = "same" ->
                   <<BlockStmt(<<Declaration(first, n1), Declaration(second, n2)>>)>>
              [] place = "nested" ->
                   <<BlockStmt(<<Declaration(first, n1),
                                 BlockStmt(<<Declaration(second, n2)>>)>>)>>
              [] place = "global" -> <<Declaration(first, n1), Declaration(second, n2)>>
        ELSE IF first = "param" /\ second /= "param" THEN
            CASE place = "same" -> <<FunctionStmt(f, <<n1>>, <<Declaration(second, n2)>>)>>
              [] place = "nested" ->
                   <<FunctionStmt(f, <<n1>>, <<BlockStmt(<<Declaration(second, n2)>>)>>)>>
        ELSE IF first /= "param" /\ second = "param" THEN
            CASE place = "nested" ->
                   <<BlockStmt(<<Declaration(first, n1), FunctionStmt(g, <<n2>>, <<>>)>>)>>
              [] place = "global" -> <<Declaration(first, n1), FunctionStmt(g, <<n2>>, <<>>)>>
        ELSE
            CASE place = "same" -> <<FunctionStmt(f, <<n1, n2>>, <<>>)>>
              [] place = "nested" ->
                   <<FunctionStmt(f, <<n1>>, <<FunctionStmt(g, <<n2>>, <<>>)>>)>>

\* the placements that exist: a parameter is never global, and a parameter is
\* in one scope with a parameter or with the declarations of its function body
DeclPlacesOf(first, second) ==
    IF first /= "param" /\ second /= "param" THEN DeclPlaces
    ELSE IF first = "param" /\ second /= "param" THEN {"same", "nested"}
    ELSE IF first /= "param" /\ second = "param" THEN {"nested", "global"}
    ELSE {"same", "nested"}

DeclareCorpus ==
    {p \in [name : {"declare"}, a : DeclKinds, b : DeclKinds, c : DeclPlaces, d : DeclNames] :
        p.c \in DeclPlacesOf(p.a, p.b)}

\* var x = <an expression that reads x or y>; at the top level, in a block, in a
\* function body, in a method body, in a block nested in the block of another
\* x ("shadow"); var y = <expression> in a block nested in the block of x
\* ("outer"), and after var x; in the same block ("defined")
InitializerPlaces == {"global", "block", "function", "method", "shadow", "outer", "defined"}
InitializerReads == {"plain", "grouping", "unary", "binary", "argument"}

Reading(how, name) ==
    CASE how = "plain" -> Variable(name)
      [] how = "grouping" -> Grouping(Variable(name))
      [] how = "unary" -> Unary(Variable(name), Op("Minus", 6))
      [] how = "binary" -> Binary(Literal(Num(1)), Op("Plus", 6), Variable(name))
      [] how = "argument" -> CallOf(Var("clock", 6), 7, <<Variable(name)>>)

ProgInitializer(place, lexeme, how) ==
    LET x == Ident("x", 1)
        y == Ident("y", 2)
        read == Reading(how, Ident(lexeme, 5))
    IN  CASE place = "global" -> <<VarStmt(x, read)>>
          [] place = "block" -> <<BlockStmt(<<VarStmt(x, read)>>)>>
          [] place = "function" -> <<FunctionStmt(Ident("f", 3), <<>>, <<VarStmt(x, read)>>)>>
          [] place = "method" ->
               <<ClassStmt(Ident("A", 3), None,
                           <<FunctionStmt(Ident("m", 4), <<>>, <<VarStmt(x, read)>>)>>)>>
          [] place = "shadow" ->
               <<BlockStmt(<<VarStmt(Ident("x", 3), Literal(Num(1))), VarStmt(y, None),
                             BlockStmt(<<VarStmt(x, read)>>)>>)>>
          [] place = "outer" ->
               <<BlockStmt(<<VarStmt(x, None), BlockStmt(<<VarStmt(y, read)>>)>>)>>
          [] place = "defined" -> <<BlockStmt(<<VarStmt(x, None), VarStmt(y, read)>>)>>

InitializerCorpus ==
    [name : {"initializer"}, a : InitializerPlaces, b : DeclNames, c : InitializerReads]

\* a return statement, bare or with a value: at the top level, at the top level
\* after a function or a class declaration, in a block of the top level, in a
\* function, in a block of a function, in a function nested in a function, in
\* a method, in init, in init after a nested function, in a function nested
\* in init
ReturnPlaces ==
    {"top", "after_fun", "after_class", "block", "fun", "block_in_fun", "fun_in_fun",
     "method", "init", "init_after_fun", "fun_in_init"}

ProgReturn(place, valued) ==
    LET ret == ReturnOf(9, IF valued THEN Literal(Num(1)) ELSE None)
        f == Ident("f", 1)
        g == Ident("g", 2)
        A == Ident("A", 3)
        Method(lexeme, body) == FunctionStmt(Ident(lexeme, 4), <<>>, body)
    IN  CASE place = "top" -> <<ret>>
          [] place = "after_fun" -> <<FunctionStmt(f, <<>>, <<>>), ret>>
          [] place = "after_class" -> <<ClassStmt(A, None, <<Method("m", <<>>)>>), ret>>
          [] place = "block" -> <<BlockStmt(<<ret>>)>>
          [] place = "fun" -> <<FunctionStmt(f, <<>>, <<ret>>)>>
          [] place = "block_in_fun" -> <<FunctionStmt(f, <<>>, <<BlockStmt(<<ret>>)>>)>>
          [] place = "fun_in_fun" ->
               <<FunctionStmt(f, <<>>, <<FunctionStmt(g, <<>>, <<ret>>)>>)>>
          [] place = "method" -> <<ClassStmt(A, None, <<Method("m", <<ret>>)>>)>>
          [] place = "init" -> <<ClassStmt(A, None, <<Method(INITIALIZER_NAME, <<ret>>)>>)>>
          [] place = "init_after_fun" ->
               <<ClassStmt(A, None,
                           <<Method(INITIALIZER_NAME, <<FunctionStmt(g, <<>>, <<>>), ret>>)>>)>>
          [] place = "fun_in_init" ->
               <<ClassStmt(A, None,
                           <<Method(INITIALIZER_NAME, <<FunctionStmt(g, <<>>, <<ret>>)>>)>>)>>

ReturnCorpus == [name : {"return"}, a : ReturnPlaces, b : BOOLEAN]

ResolveCorpus == DeclareCorpus \cup InitializerCorpus \cup ReturnCorpus

\* a = 1:  var a = <b>; { fun show() { print a; } show(); var a = <c>; show(); }
\* a = 2:  { var a = <b>; fun show() { print a; } show(); { var a = <c>; show(); } }
\* a = 3:  var a = <b>; { fun set() { a = <c>; } var a = <b>; set(); print a; } print a;
\* a = 4:  { fun show() { print a; } var a = <c>; show(); }
ProgScoping(a, b, c) ==
    LET global == LiteralValues[b]
        local == LiteralValues[c]
        show == FunctionStmt(Ident("show", 1), <<>>, <<PrintStmt(Var("a", 2))>>)
        set == FunctionStmt(Ident("set", 1), <<>>,
                            <<ExpressionStmt(Assign(Ident("a", 2), Literal(local)))>>)
        call(lexeme, loc) == ExpressionStmt(CallOf(Var(lexeme, loc), loc + 1, <<>>))
    IN  CASE a = 1 ->
               <<VarStmt(Ident("a", 3), Literal(global)),
                 BlockStmt(<<show, call("show", 4),
                             VarStmt(Ident("a", 6), Literal(local)), call("show", 7)>>)>>
          [] a = 2 ->
               <<BlockStmt(<<VarStmt(Ident("a", 3), Literal(global)), show, call("show", 4),
                             BlockStmt(<<VarStmt(Ident("a", 6), Literal(local)),
                                         call("show", 7)>>)>>)>>
          [] a = 3 ->
               <<VarStmt(Ident("a", 3), Literal(global)),
                 BlockStmt(<<set, VarStmt(Ident("a", 6), Literal(global)), call("set", 7),
                             PrintStmt(Var("a", 9))>>),
                 PrintStmt(Var("a", 10))>>
          [] a = 4 ->
               <<BlockStmt(<<show, VarStmt(Ident("a", 6), Literal(local)),
                             call("show", 7)>>)>>

\* a = 1:  class A { m() { return <b>; } }  class B < A {}  print B().m();
\* a = 2:  class A { m() { return nil; } }  class B < A { m() { return <b>; } }  print B().m();
\* a = 3:  class A {}  class B < A {}  print B().m();
\* a = 4:  class A { init(v) { this.v = v; } }  class B < A {}  print B(<b>).v;
\* a = 5:  class A { m() { return <b>; } }  class B < A {}  class C < B {}  print C().m();
ProgInherit(a, b) ==
    LET value == Literal(LiteralValues[b])
        m(loc, result) == FunctionStmt(Ident("m", loc), <<>>, <<ReturnOf(loc + 1, result)>>)
        init == FunctionStmt(Ident(INITIALIZER_NAME, 2), <<Ident("v", 3)>>,
                             <<ExpressionStmt(Set(ThisAt(4), Ident("v", 5), Var("v", 6)))>>)
        A(methods) == ClassStmt(Ident("A", 1), None, methods)
        B(methods) == ClassStmt(Ident("B", 7), Var("A", 8), methods)
        C == ClassStmt(Ident("C", 11), Var("B", 12), <<>>)
        new(lexeme, arguments) == CallOf(Var(lexeme, 13), 14, arguments)
        call_m(lexeme) == CallOf(Get(new(lexeme, <<>>), Ident("m", 15)), 16, <<>>)
    IN  CASE a = 1 -> <<A(<<m(2, value)>>), B(<<>>), PrintStmt(call_m("B"))>>
          [] a = 2 -> <<A(<<m(2, Literal(Nil))>>), B(<<m(9, value)>>), PrintStmt(call_m("B"))>>
          [] a = 3 -> <<A(<<>>), B(<<>>), PrintStmt(call_m("B"))>>
          [] a = 4 -> <<A(<<init>>), B(<<>>),
                        PrintStmt(Get(new("B", <<value>>), Ident("v", 15)))>>
          [] a = 5 -> <<A(<<m(2, value)>>), B(<<>>), C, PrintStmt(call_m("C"))>>

\* the values of the two declarations: two different values among 0, 1, "", "a"
ScopingValues == 4..7

Prog(name, a, b, c) == [name |-> name, a |-> a, b |-> b, c |-> c]

Corpus ==
    {Prog("counter", 0, 0, 0), Prog("shared", 0, 0, 0), Prog("bare_return", 0, 0, 0),
     Prog("error_in_block", 0, 0, 0), Prog("shadow", 0, 0, 0), Prog("super_call", 0, 0, 0)}
    \cup {Prog("nested_return", a, 0, 0) : a \in 0..MaxNum}
    \cup {Prog("top_return", a, 0, 0) : a \in 0..1}
    \cup {Prog("class_init", a, 0, c) : a \in 0..1, c \in 0..1}
    \cup {Prog("local_class", a, 0, 0) : a \in 0..2}
    \cup {Prog("logical", a, b, c) : a \in 1..Len(LiteralValues), b \in 1..Len(LiteralValues),
                                     c \in 1..Len(LogicalOps)}
    \cup {Prog("inherit", a, b, 0) : a \in 1..5, b \in ScopingValues}
    \cup {p \in {Prog("scoping", a, b, c) : a \in 1..4,
                                     b \in ScopingValues, c \in ScopingValues} : p.b /= p.c}

Program(p) ==
    CASE p.name = "declare" -> ProgDeclare(p.a, p.b, p.c, p.d)
      [] p.name = "initializer" -> ProgInitializer(p.a, p.b, p.c)
      [] p.name = "return" -> ProgReturn(p.a, p.b)
      [] p.name = "scoping" -> ProgScoping(p.a, p.b, p.c)
      [] p.name = "inherit" -> ProgInherit(p.a, p.b)
      [] p.name = "counter" -> ProgCounter
      [] p.name = "shared" -> ProgShared
      [] p.name = "nested_return" -> ProgNestedReturn(p.a)
      [] p.name = "bare_return" -> ProgBareReturn
      [] p.name = "error_in_block" -> ProgErrorInBlock
      [] p.name = "top_return" -> ProgTopReturn(p.a)
      [] p.name = "shadow" -> ProgShadow
      [] p.name = "class_init" -> ProgClassInit(p.a, p.c)
      [] p.name = "super_call" -> ProgSuperCall
      [] p.name = "local_class" -> ProgLocalClass(p.a)
      [] p.name = "logical" -> ProgLogical(p.a, p.b, p.c)

NoProgram == Prog("none", 0, 0, 0)
NoOp == [op |-> "none"]
NoOperands == [l |-> 0, r |-> 0, op |-> "none"]
NoScanner == [phase |-> "none"]
NoParser == [phase |-> "none"]

(***************************************************************************)
(* Spec: the pipeline on a program of the corpus.  Resolve runs the        *)
(* resolver over the whole program; Interpret is one turn of the loop of   *)
(* Interpreter::interpret.                                                 *)
(***************************************************************************)
Init ==
    /\ pid \in Corpus
    /\ phase = "resolve"
    /\ ip = 0
    /\ interp = Interpreter_new
    /\ outcome = Ok(Unit)
    /\ lastOp = NoOp
    /\ operands = NoOperands
    /\ scanner = NoScanner
    /\ parser = NoParser

Resolve ==
    /\ phase = "resolve"
    /\ \E res \in {Resolver_resolve_statements(Resolver_with(interp.locals), Program(pid))} :
       /\ interp' = [interp EXCEPT !.locals = res.s.locals]
       /\ outcome' = res.r
       /\ phase' = IF res.r.ok THEN "run" ELSE "rejected"
    /\ UNCHANGED <<pid, ip, lastOp, operands, scanner, parser>>

Interpret ==
    /\ phase = "run"
    /\ ip < Len(Program(pid))
    /\ \E res \in {execute(interp, Program(pid)[ip + 1])} :
       /\ interp' = res.s
       /\ outcome' = res.r
       /\ ip' = ip + 1
       /\ phase' = IF ~res.r.ok THEN "failed"
                   ELSE IF ip + 1 = Len(Program(pid)) THEN "done" ELSE "run"
    /\ UNCHANGED <<pid, lastOp, operands, scanner, parser>>

Next == Resolve \/ Interpret

Spec == Init /\ [][Next]_vars

(***************************************************************************)
(* SpecResolve: the resolver alone, on the programs of ResolveCorpus.      *)
(***************************************************************************)
InitResolve ==
    /\ pid \in ResolveCorpus
    /\ phase = "resolve"
    /\ ip = 0
    /\ interp = Interpreter_new
    /\ outcome = Ok(Unit)
    /\ lastOp = NoOp
    /\ operands = NoOperands
    /\ scanner = NoScanner
    /\ parser = NoParser

NextResolve == Resolve

SpecResolve == InitResolve /\ [][NextResolve]_vars

(***************************************************************************)
(* SpecEnv: the operations of Environment on a heap of at most MaxEnvs     *)
(* environments, starting from the global environment of a new             *)
(* interpreter.                                                            *)
(***************************************************************************)
\* names looked up and assigned: a user variable and the builtin of the globals
EnvNames == {"a", "clock"}
\* names defined by the operations (clock is defined by Interpreter::new)
DefinedNames == {"a"}
EnvValues == {Num(1), Num(2)}
Envs == 1..Len(interp.envs)

InitEnv ==
    /\ pid = NoProgram
    /\ phase = "env"
    /\ ip = 0
    /\ interp = Interpreter_new
    /\ outcome = Ok(Unit)
    /\ lastOp = NoOp
    /\ operands = NoOperands
    /\ scanner = NoScanner
    /\ parser = NoParser

EnvWith ==
    /\ Len(interp.envs) < MaxEnvs
    /\ \E parent \in Envs :
          /\ interp' = [interp EXCEPT !.envs = Append(@, Environment_with(parent))]
          /\ lastOp' = [op |-> "with", e |-> parent]
    /\ outcome' = Ok(Unit)
    /\ UNCHANGED <<pid, phase, ip, operands, scanner, parser>>

EnvDefine ==
    /\ \E e \in Envs, name \in DefinedNames, value \in EnvValues :
          /\ interp' = [interp EXCEPT !.envs = Environment_define(@, e, name, value)]
          /\ lastOp' = [op |-> "define", e |-> e, name |-> name, value |-> value]
    /\ outcome' = Ok(Unit)
    /\ UNCHANGED <<pid, phase, ip, operands, scanner, parser>>

EnvAssign ==
    /\ \E e \in Envs, name \in EnvNames, value \in EnvValues :
          LET res == Environment_assign(interp.envs, e, Ident(name, 0), value) IN
          /\ interp' = [interp EXCEPT !.envs = res.envs]
          /\ outcome' = res.r
          /\ lastOp' = [op |-> "assign", e |-> e, name |-> name, value |-> value]
    /\ UNCHANGED <<pid, phase, ip, operands, scanner, parser>>

EnvGet ==
    /\ \E e \in Envs, name \in EnvNames :
          /\ outcome' = Environment_get(interp.envs, e, Ident(name, 0))
          /\ lastOp' = [op |-> "get", e |-> e, name |-> name]
    /\ UNCHANGED <<interp, pid, phase, ip, operands, scanner, parser>>

\* distances reach past the longest chain the heap can hold
Distances == 0..MaxEnvs

EnvGetAt ==
    /\ \E e \in Envs, d \in Distances, name \in EnvNames :
          /\ outcome' = Environment_get_at(interp.envs, e, d, name)
          /\ lastOp' = [op |-> "get_at", e |-> e, d |-> d, name |-> name]
    /\ UNCHANGED <<interp, pid, phase, ip, operands, scanner, parser>>

EnvAssignAt ==
    /\ \E e \in Envs, d \in Distances, name \in DefinedNames, value \in EnvValues :
          LET res == Environment_assign_at(interp.envs, e, d, Ident(name, 0), value) IN
          /\ interp' = [interp EXCEPT !.envs = res.envs]
          /\ outcome' = res.r
          /\ lastOp' = [op |-> "assign_at", e |-> e, d |-> d, name |-> name,
                        value |-> value]
    /\ UNCHANGED <<pid, phase, ip, operands, scanner, parser>>

NextEnv == EnvWith \/ EnvDefine \/ EnvAssign \/ EnvGet

SpecEnv == InitEnv /\ [][NextEnv]_vars

\* the same heap under the operations that address an environment by distance
NextEnvAt == EnvWith \/ EnvDefine \/ EnvGetAt \/ EnvAssignAt

SpecEnvAt == InitEnv /\ [][NextEnvAt]_vars

(***************************************************************************)
(* SpecBinary: visit_binary on two literal operands, as the unit tests of  *)
(* the interpreter build it (binary_expr), on a new interpreter.           *)
(***************************************************************************)
BinaryOps == {"Minus", "Slash", "Star", "Plus", "Greater", "GreaterEqual", "Less",
              "LessEqual", "BangEqual", "EqualEqual"}

DeclF == FunctionStmt(Ident("f", 1), <<>>, <<>>)
DeclG == FunctionStmt(Ident("g", 2), <<>>, <<>>)

\* the operand values: numbers -MaxNum..MaxNum first, then one or more of every other kind
OtherValues ==
    <<Nil, Bool(TRUE), Bool(FALSE), Text(""), Text("a"), Text("b"), BuiltinFunc_clock,
      Callee(DeclF, 1, FALSE), Callee(DeclF, 2, FALSE), Callee(DeclG, 1, FALSE),
      Class(1), Instance(1)>>
NumValues == 2 * MaxNum + 1
OperandValue(i) == IF i <= NumValues THEN Num(i - MaxNum - 1) ELSE OtherValues[i - NumValues]
OperandIndexes == 1..(NumValues + Len(OtherValues))

binary_expr(l, t_type, r) == Binary(Literal(l), Token(t_type, "Debug", 0), Literal(r))

InitBinary ==
    /\ pid = NoProgram
    /\ phase = "operands"
    /\ ip = 0
    /\ interp = Interpreter_new
    /\ outcome = Ok(Unit)
    /\ lastOp = NoOp
    /\ operands \in [l : OperandIndexes, r : OperandIndexes, op : BinaryOps]
    /\ scanner = NoScanner
    /\ parser = NoParser

EvalBinary ==
    /\ phase = "operands"
    /\ \E res \in {visit_binary(interp, binary_expr(OperandValue(operands.l), operands.op,
                                                   OperandValue(operands.r)))} :
           /\ interp' = res.s
           /\ outcome' = res.r
    /\ phase' = "evaluated"
    /\ UNCHANGED <<pid, ip, lastOp, operands, scanner, parser>>

NextBinary == EvalBinary

SpecBinary == InitBinary /\ [][NextBinary]_vars

\* SpecOperators: visit_binary, and visit_unary of '-' on the left operand
unary_expr(t_type, r) == Unary(Literal(r), Token(t_type, "Debug", 0))

EvalUnary ==
    /\ phase = "operands"
    /\ operands.op = "Minus"
    /\ \E res \in {visit_unary(interp, unary_expr(operands.op, OperandValue(operands.l)))} :
           /\ interp' = res.s
           /\ outcome' = res.r
    /\ phase' = "negated"
    /\ UNCHANGED <<pid, ip, lastOp, operands, scanner, parser>>

NextOperators == EvalBinary \/ EvalUnary

SpecOperators == InitBinary /\ [][NextOperators]_vars

(***************************************************************************)
(* Scanner.  The source is a sequence of characters (strings of length     *)
(* one); the cursors start and current are 0-based offsets into it, as in  *)
(* the code.  Option<char> is a character or NoChar.                       *)
(***************************************************************************)
NoChar == ""
Digits == {"0", "1", "2", "3", "4", "5", "6", "7", "8", "9"}
Letters ==
    {"a", "b", "c", "d", "e", "f", "g", "h", "i", "j", "k", "l", "m",
     "n", "o", "p", "q", "r", "s", "t", "u", "v", "w", "x", "y", "z",
     "A", "B", "C", "D", "E", "F", "G", "H", "I", "J", "K", "L", "M",
     "N", "O", "P", "Q", "R", "S", "T", "U", "V", "W", "X", "Y", "Z"}

is_digit(value) == value \in Digits
is_alphanumeric(value) == value = "_" \/ value \in Letters \cup Digits

CodeLocation(line, abs_position) == [line |-> line, abs_position |-> abs_position]
FoxError_code(kind, location) == [kind |-> kind, location |-> location]

ScanData_Skip == [t |-> "Skip"]
ScanData_Token(token) == [t |-> "Token", token |-> token]

Scanner_with_source(source) ==
    [start |-> 0, current |-> 0, line |-> 1, source |-> source]

peek(sc) ==
    IF sc.current < Len(sc.source) THEN sc.source[sc.current + 1] ELSE NoChar
peek_next(sc) ==
    IF sc.current + 1 < Len(sc.source) THEN sc.source[sc.current + 2] ELSE NoChar
\* advance moves the cursor even when there is no character left
advance(sc) == [sc EXCEPT !.current = @ + 1]

RECURSIVE advance_to_eol(_)
advance_to_eol(sc) ==
    IF peek(sc) = NoChar \/ peek(sc) = "\n" THEN sc ELSE advance_to_eol(advance(sc))

\* the characters source[start..end] collected into a String
RECURSIVE substring(_, _, _)
substring(sc, start, end) ==
    IF start >= end THEN ""
    ELSE sc.source[start + 1] \o substring(sc, start + 1, end)

Scanner_error(sc, error_kind) ==
    FoxError_code(error_kind, CodeLocation(sc.line, sc.current))

token_with_literal(sc, token_type, literal) ==
    [token_type |-> token_type,
     lexeme |-> IF sc.start < sc.current THEN ""
                ELSE substring(sc, sc.start, sc.current),
     literal |-> literal,
     loc |-> CodeLocation(sc.line, sc.current)]

\* a token without a literal carries the placeholder object
scan_data_by_type(sc, token_type) ==
    Ret(sc, Ok(ScanData_Token(token_with_literal(sc, token_type, Nil))))

RECURSIVE scan_string_one_line(_)
scan_string_one_line(sc) ==
    IF peek(sc) = NoChar
        THEN Ret(advance(sc), Err(Scanner_error(advance(sc), "UnterminatedString")))
    ELSE IF peek(sc) = "\""
        THEN Ret(advance(sc),
                 Ok(ScanData_Token(token_with_literal(advance(sc), "String",
                        Text(substring(sc, sc.start + 1, sc.current))))))
    ELSE scan_string_one_line(advance(sc))

RECURSIVE scan_string(_)
scan_string(sc) ==
    IF peek(sc) = NoChar
        THEN Ret(advance(sc), Err(Scanner_error(advance(sc), "UnterminatedString")))
    ELSE IF peek(sc) = "\""
        THEN Ret(advance(sc),
                 Ok(ScanData_Token(token_with_literal(advance(sc), "String",
                        Text(substring(sc, sc.start + 1, sc.current))))))
    ELSE IF peek(sc) = "\n"
        THEN scan_string([advance(sc) EXCEPT !.line = @ + 1])
    ELSE scan_string(advance(sc))

RECURSIVE skip_digits(_)
skip_digits(sc) == IF is_digit(peek(sc)) THEN skip_digits(advance(sc)) ELSE sc

\* str::parse::<f32> on a lexeme of digits with at most one '.': its decimal
\* value, num / 10^(number of digits after the '.').  (The f32 nearest to that
\* value is the literal; the map is one-to-one on lexemes this short.)
DigitValue(ch) ==
    CASE ch = "0" -> 0 [] ch = "1" -> 1 [] ch = "2" -> 2 [] ch = "3" -> 3
      [] ch = "4" -> 4 [] ch = "5" -> 5 [] ch = "6" -> 6 [] ch = "7" -> 7
      [] ch = "8" -> 8 [] ch = "9" -> 9

RECURSIVE parse_digits(_, _, _, _, _)
parse_digits(source, start, end, num, den) ==
    IF start >= end THEN Ok(Rational(num, IF den = 0 THEN 1 ELSE den))
    ELSE IF source[start + 1] = "."
        THEN IF den /= 0 THEN Err("invalid float literal")
             ELSE parse_digits(source, start + 1, end, num, 1)
    ELSE IF ~is_digit(source[start + 1]) THEN Err("invalid float literal")
    ELSE parse_digits(source, start + 1, end,
                      10 * num + DigitValue(source[start + 1]), 10 * den)

parse_f32(source, start, end) ==
    IF start >= end THEN Err("cannot parse float from empty string")
    ELSE parse_digits(source, start, end, 0, 0)

scan_number_greedy_dot(sc) ==
    LET whole == skip_digits(sc)
        last == IF peek(whole) = "." THEN skip_digits(advance(whole)) ELSE whole
        double == parse_f32(last.source, last.start, last.current)
    IN  IF ~double.ok THEN Ret(last, Err(Scanner_error(last, "UnexpectedCharacter")))
        ELSE Ret(last, Ok(ScanData_Token(token_with_literal(last, "Number", double.v))))

scan_number(sc) ==
    LET whole == skip_digits(sc)
        last == IF peek(whole) = "." /\ is_digit(peek_next(whole))
                    THEN skip_digits(advance(whole)) ELSE whole
        double == parse_f32(last.source, last.start, last.current)
    IN  IF ~double.ok THEN Ret(last, Err(Scanner_error(last, "UnexpectedCharacter")))
        ELSE Ret(last, Ok(ScanData_Token(token_with_literal(last, "Number", double.v))))

RECURSIVE skip_alphanumeric(_)
skip_alphanumeric(sc) ==
    IF is_alphanumeric(peek(sc)) THEN skip_alphanumeric(advance(sc)) ELSE sc

keyword_type(value) ==
    CASE value = "and" -> "And"       [] value = "class" -> "Class"
      [] value = "else" -> "Else"     [] value = "false" -> "False"
      [] value = "for" -> "For"       [] value = "fun" -> "Fun"
      [] value = "if" -> "If"         [] value = "nil" -> "Nil"
      [] value = "or" -> "Or"         [] value = "print" -> "Print"
      [] value = "return" -> "Return" [] value = "super" -> "Super"
      [] value = "this" -> "This"     [] value = "true" -> "True"
      [] value = "var" -> "Var"       [] value = "while" -> "While"
      [] OTHER -> "Identifier"

scan_identifier(sc) ==
    LET last == skip_alphanumeric(sc) IN
    scan_data_by_type(last, keyword_type(substring(last, last.start, last.current)))

single_char_type(ch) ==
    CASE ch = "(" -> "LeftParenthesis" [] ch = ")" -> "RightParenthesis"
      [] ch = "{" -> "LeftBrace"       [] ch = "}" -> "RightBrace"
      [] ch = "," -> "Comma"           [] ch = "." -> "Dot"
      [] ch = "-" -> "Minus"           [] ch = "+" -> "Plus"
      [] ch = ";" -> "Semicolon"       [] ch = "*" -> "Star"
      [] ch = "!" -> "Bang"            [] ch = "=" -> "Equal"
      [] ch = "<" -> "Less"            [] ch = ">" -> "Greater"
      [] ch = "/" -> "Slash"

\* sc.start = sc.current on entry (scan_tokens sets it before the call)
scan_next(sc0) ==
    LET ch == peek(sc0)
        sc == advance(sc0)
    IN  IF ch = NoChar THEN scan_data_by_type(sc, "Eof")
        ELSE IF ch \in {"(", ")", "{", "}", ",", ".", "-", "+", ";", "*"}
            THEN scan_data_by_type(sc, single_char_type(ch))
        ELSE IF ch \in {"!", "=", "<", ">"}
            THEN IF peek(sc) = "="
                     THEN scan_data_by_type(advance(sc), single_char_type(ch) \o "Equal")
                     ELSE scan_data_by_type(sc, single_char_type(ch))
        ELSE IF ch = "/"
            THEN IF peek(sc) = "/"
                     THEN Ret(advance_to_eol(advance(sc)), Ok(ScanData_Skip))
                     ELSE scan_data_by_type(sc, "Slash")
        ELSE IF ch \in {" ", "\r", "\t"} THEN Ret(sc, Ok(ScanData_Skip))
        ELSE IF ch = "\n" THEN Ret([sc EXCEPT !.line = @ + 1], Ok(ScanData_Skip))
        ELSE IF ch = "\"" THEN scan_string(sc)
        ELSE IF is_digit(ch) THEN scan_number(sc)
        ELSE IF ch \in Letters THEN scan_identifier(sc)
        ELSE Ret(sc, Err(Scanner_error(sc, "UnexpectedCharacter")))

(***************************************************************************)
(* SpecScan: Scanner::scan_tokens on a source; ScanNext is one turn of its *)
(* loop.  The sources are every sequence of at most MaxSrc characters of   *)
(* ScanAlphabet, and the sequences of at most MaxLexemes lexemes separated *)
(* by one whitespace character.                                            *)
(***************************************************************************)
ScanAlphabet == {"\"", "\n", "/", "1", ".", "a", "_", "@"}
CharSources == UNION {[1..n -> ScanAlphabet] : n \in 0..MaxSrc}
\* sources with comments: the one of test_comment_parse, and a comment followed
\* by a string literal that holds a newline
CommentSources ==
    {<<"\n", "(", "\n", "/", "/", " ", "c", "\n", ")", " ", "/", "/", " ", "o", "\n">>,
     <<"/", "/", "\n", "\"", "\n", "\"">>}

Lexeme(kind, chars) == [kind |-> kind, chars |-> chars]
Punctuation ==
    {Lexeme("LeftParenthesis", <<"(">>), Lexeme("RightParenthesis", <<")">>),
     Lexeme("LeftBrace", <<"{">>), Lexeme("RightBrace", <<"}">>),
     Lexeme("Comma", <<",">>), Lexeme("Dot", <<".">>), Lexeme("Minus", <<"-">>),
     Lexeme("Plus", <<"+">>), Lexeme("Semicolon", <<";">>), Lexeme("Slash", <<"/">>),
     Lexeme("Star", <<"*">>)}
Operators ==
    {Lexeme("Bang", <<"!">>), Lexeme("BangEqual", <<"!", "=">>),
     Lexeme("Equal", <<"=">>), Lexeme("EqualEqual", <<"=", "=">>),
     Lexeme("Greater", <<">">>), Lexeme("GreaterEqual", <<">", "=">>),
     Lexeme("Less", <<"<">>), Lexeme("LessEqual", <<"<", "=">>)}
KeywordLexemes ==
    {Lexeme("And", <<"a", "n", "d">>), Lexeme("Class", <<"c", "l", "a", "s", "s">>),
     Lexeme("Else", <<"e", "l", "s", "e">>), Lexeme("False", <<"f", "a", "l", "s", "e">>),
     Lexeme("For", <<"f", "o", "r">>), Lexeme("Fun", <<"f", "u", "n">>),
     Lexeme("If", <<"i", "f">>), Lexeme("Nil", <<"n", "i", "l">>),
     Lexeme("Or", <<"o", "r">>), Lexeme("Print", <<"p", "r", "i", "n", "t">>),
     Lexeme("Return", <<"r", "e", "t", "u", "r", "n">>),
     Lexeme("Super", <<"s", "u", "p", "e", "r">>), Lexeme("This", <<"t", "h", "i", "s">>),
     Lexeme("True", <<"t", "r", "u", "e">>), Lexeme("Var", <<"v", "a", "r">>),
     Lexeme("While", <<"w", "h", "i", "l", "e">>)}
\* identifiers: a keyword with one more character, a prefix of a keyword, a
\* keyword in upper case, names with digits and '_', and a name that begins with '_'
IdentifierLexemes ==
    {Lexeme("Identifier", <<"i", "f", "f">>), Lexeme("Identifier", <<"o">>),
     Lexeme("Identifier", <<"O", "r">>), Lexeme("Identifier", <<"a", "_", "1">>),
     Lexeme("Identifier", <<"o", "r", "_">>), Lexeme("Identifier", <<"_", "x">>)}
StringLexemes ==
    {Lexeme("String", <<"\"", "\"">>), Lexeme("String", <<"\"", "a", " ", "1", "\"">>),
     Lexeme("String", <<"\"", "/", "/", "\n", "\"">>)}
NumberLexemes ==
    {Lexeme("Number", <<"0">>), Lexeme("Number", <<"1", "2">>),
     Lexeme("Number", <<"1", ".", "5">>)}
Lexemes ==
    Punctuation \cup Operators \cup KeywordLexemes \cup IdentifierLexemes
        \cup StringLexemes \cup NumberLexemes
\* the lexemes that follow the first one of a source
Followers ==
    {Lexeme("Equal", <<"=">>), Lexeme("EqualEqual", <<"=", "=">>),
     Lexeme("If", <<"i", "f">>), Lexeme("Identifier", <<"i", "f", "f">>),
     Lexeme("Number", <<"1", ".", "5">>), Lexeme("Dot", <<".">>)}
Whitespace == {" ", "\n", "\t"}

LexemeLists ==
    {<<>>} \cup
    UNION {{<<first>> \o rest : first \in Lexemes, rest \in [1..n -> Followers]} :
              n \in 0..(MaxLexemes - 1)}

RECURSIVE join(_, _)
join(lexemes, sep) ==
    IF lexemes = <<>> THEN <<>>
    ELSE IF Len(lexemes) = 1 THEN lexemes[1].chars
    ELSE lexemes[1].chars \o <<sep>> \o join(Tail(lexemes), sep)

\* lexemes is history: the lexemes the source was made of (of_lexemes), if any
Scanning(source, of_lexemes, lexemes) ==
    [phase |-> "scanning", sc |-> Scanner_with_source(source), tokens |-> <<>>,
     result |-> None, of_lexemes |-> of_lexemes, lexemes |-> lexemes]

InitScan ==
    /\ pid = NoProgram
    /\ phase = "scan"
    /\ ip = 0
    /\ interp = Interpreter_new
    /\ outcome = Ok(Unit)
    /\ lastOp = NoOp
    /\ operands = NoOperands
    /\ parser = NoParser
    /\ \/ \E source \in CharSources \cup CommentSources : scanner = Scanning(source, FALSE, <<>>)
       \/ \E lexemes \in LexemeLists, sep \in Whitespace :
             scanner = Scanning(join(lexemes, sep), TRUE, lexemes)

\* one turn of the loop of scan_tokens; an error leaves the loop with the error
\* alone (the vector of tokens is dropped)
push_token(tokens, data) == IF data.t = "Token" THEN Append(tokens, data.token) ELSE tokens
is_eof(data) == data.t = "Token" /\ data.token.token_type = "Eof"

ScanNext_keeps_tokens ==
    /\ scanner.phase = "scanning"
    /\ \E res \in {scan_next([scanner.sc EXCEPT !.start = scanner.sc.current])} :
          scanner' =
              IF ~res.r.ok
                  THEN [scanner EXCEPT !.phase = "failed", !.sc = res.s, !.result = res.r]
              ELSE IF is_eof(res.r.v)
                  THEN [scanner EXCEPT !.phase = "done", !.sc = res.s,
                                       !.tokens = push_token(@, res.r.v),
                                       !.result = Ok(push_token(scanner.tokens, res.r.v))]
              ELSE [scanner EXCEPT !.sc = res.s, !.tokens = push_token(@, res.r.v)]
    /\ UNCHANGED <<interp, pid, phase, ip, outcome, lastOp, operands, parser>>

ScanNext ==
    /\ scanner.phase = "scanning"
    /\ \E res \in {scan_next([scanner.sc EXCEPT !.start = scanner.sc.current])} :
          scanner' =
              IF ~res.r.ok
                  THEN [scanner EXCEPT !.phase = "failed", !.sc = res.s,
                                       !.tokens = <<>>, !.result = res.r]
              ELSE IF is_eof(res.r.v)
                  THEN [scanner EXCEPT !.phase = "done", !.sc = res.s,
                                       !.tokens = push_token(@, res.r.v),
                                       !.result = Ok(push_token(scanner.tokens, res.r.v))]
              ELSE [scanner EXCEPT !.sc = res.s, !.tokens = push_token(@, res.r.v)]
    /\ UNCHANGED <<interp, pid, phase, ip, outcome, lastOp, operands, parser>>

NextScan == ScanNext

SpecScan == InitScan /\ [][NextScan]_vars

(***************************************************************************)
(* Parser: recursive descent over the tokens.  A parser p is the slice of  *)
(* tokens and the 0-based cursor current; every method returns the parser  *)
(* it leaves and its FoxResult.                                            *)
(***************************************************************************)
\* The limit on the parameters of a function and on the arguments of a call.  It
\* is 255 in the source; the model scales it down, and the lists of the corpus
\* with it, so that lists up to two longer than the limit are parsed.
MAX_FUNCTION_ARGUMENT_COUNT == 3

Parser_new(tokens) == [tokens |-> tokens, current |-> 0]

Parser_peek(p) ==
    IF p.current < Len(p.tokens) THEN p.tokens[p.current + 1] ELSE None
Parser_check_type(p, tt) ==
    p.current < Len(p.tokens) /\ p.tokens[p.current + 1].token_type = tt
Parser_is_at_end(p) ==
    p.current >= Len(p.tokens) \/ p.tokens[p.current + 1].token_type = "Eof"
Parser_advance(p) ==
    IF p.current < Len(p.tokens) THEN [p EXCEPT !.current = @ + 1] ELSE p
\* matches(types) is true, and the parser advances, when the next token has one
\* of the types
Parser_matches(p, types) == \E tt \in types : Parser_check_type(p, tt)
Parser_previous_token(p) == IF p.current = 0 THEN None ELSE p.tokens[p.current]
Parser_error(p, error_kind, message) ==
    FoxError_token(error_kind, message, Parser_previous_token(p))
Parser_force_previous_token(p) ==
    IF IsNone(Parser_previous_token(p))
        THEN Ret(p, Err(Parser_error(p, "ExpectedOperator", "")))
        ELSE Ret(p, Ok(Parser_previous_token(p)))
Parser_consume_token(p, t_type, message) ==
    IF Parser_check_type(p, t_type)
        THEN Ret(Parser_advance(p), Ok(Parser_peek(p)))
        ELSE Ret(p, Err(Parser_error(p, "Parse", message)))

\* the tail of for_statement: the loop built from the clauses that are there
Parser_for_desugar_increment_first(initializer, condition, increment, body) ==
    LET stepped == IF IsNone(increment) THEN body
                   ELSE BlockStmt(<<ExpressionStmt(increment), body>>)
        looped == IF IsNone(condition) THEN stepped ELSE WhileStmt(condition, stepped)
    IN  IF IsNone(initializer) THEN looped ELSE BlockStmt(<<initializer, looped>>)

Parser_for_desugar(initializer, condition, increment, body) ==
    LET stepped == IF IsNone(increment) THEN body
                   ELSE BlockStmt(<<body, ExpressionStmt(increment)>>)
        looped == IF IsNone(condition) THEN stepped ELSE WhileStmt(condition, stepped)
    IN  IF IsNone(initializer) THEN looped ELSE BlockStmt(<<initializer, looped>>)

\* the levels of binary operators, their operators, and the node they build
Parser_operators(level) ==
    CASE level = "or" -> {"Or"}
      [] level = "and" -> {"And"}
      [] level = "equality" -> {"BangEqual", "EqualEqual"}
      [] level = "comparison" -> {"Greater", "GreaterEqual", "Less", "LessEqual"}
      [] level = "term" -> {"Minus", "Plus"}
      [] level = "factor" -> {"Slash", "Star"}
Parser_node(level, left, operator, right) ==
    IF level \in {"or", "and"} THEN Logical(left, operator, right)
    ELSE Binary(left, operator, right)

RECURSIVE Parser_declaration(_), Parser_function(_, _), Parser_function_params(_, _),
          Parser_var_declaration(_), Parser_statement(_), Parser_return_statement(_),
          Parser_for_statement(_), Parser_while_statement(_), Parser_if_statement(_),
          Parser_block(_), Parser_block_statements(_, _), Parser_print_statement(_),
          Parser_expression_statement(_), Parser_expression(_), Parser_assignment(_),
          Parser_operand(_, _), Parser_binary_loop(_, _, _), Parser_parse_binary(_, _),
          Parser_unary(_), Parser_call(_), Parser_call_loop(_, _),
          Parser_finish_call(_, _), Parser_call_arguments(_, _), Parser_primary(_)

Parser_declaration(p) ==
    IF Parser_matches(p, {"Fun"}) THEN Parser_function(Parser_advance(p), "function")
    ELSE IF Parser_matches(p, {"Var"}) THEN Parser_var_declaration(Parser_advance(p))
    ELSE Parser_statement(p)

\* the loop over the parameters, entered with next_param true
Parser_function_params(p, params) ==
    IF Len(params) >= MAX_FUNCTION_ARGUMENT_COUNT
        THEN Ret(p, Err(Parser_error(p, "TooManyFunctionArguments", "")))
    ELSE Try(Parser_consume_token(p, "Identifier", "Expect parameter name"),
             LAMBDA p1, param :
         IF Parser_matches(p1, {"Comma"})
             THEN Parser_function_params(Parser_advance(p1), Append(params, param))
             ELSE Ret(p1, Ok(Append(params, param))))

Parser_function(p, kind) ==
    Try(Parser_consume_token(p, "Identifier", "Expect " \o kind \o " name"),
        LAMBDA p1, name :
    Try(Parser_consume_token(p1, "LeftParenthesis", "Expect '(' after " \o kind \o " name"),
        LAMBDA p2, left :
    Try(IF Parser_check_type(p2, "RightParenthesis") THEN Ret(p2, Ok(<<>>))
        ELSE Parser_function_params(p2, <<>>),
        LAMBDA p3, params :
    Try(Parser_consume_token(p3, "RightParenthesis", "Expect ')' after parameters"),
        LAMBDA p4, right :
    Try(Parser_consume_token(p4, "LeftBrace", "Expect '{' before " \o kind \o " body"),
        LAMBDA p5, brace :
    Try(Parser_block(p5),
        LAMBDA p6, body : Ret(p6, Ok(FunctionStmt(name, params, body)))))))))

Parser_var_declaration(p) ==
    Try(Parser_consume_token(p, "Identifier", "Expect variable name"),
        LAMBDA p1, name :
    Try(IF Parser_matches(p1, {"Equal"}) THEN Parser_expression(Parser_advance(p1))
        ELSE Ret(p1, Ok(None)),
        LAMBDA p2, initializer :
    Try(Parser_consume_token(p2, "Semicolon", "Expected ';' after variable declaration"),
        LAMBDA p3, semicolon : Ret(p3, Ok(VarStmt(name, initializer))))))

Parser_statement(p) ==
    IF Parser_matches(p, {"For"}) THEN Parser_for_statement(Parser_advance(p))
    ELSE IF Parser_matches(p, {"If"}) THEN Parser_if_statement(Parser_advance(p))
    ELSE IF Parser_matches(p, {"Print"}) THEN Parser_print_statement(Parser_advance(p))
    ELSE IF Parser_matches(p, {"Return"}) THEN Parser_return_statement(Parser_advance(p))
    ELSE IF Parser_matches(p, {"While"}) THEN Parser_while_statement(Parser_advance(p))
    ELSE IF Parser_matches(p, {"LeftBrace"})
        THEN Try(Parser_block(Parser_advance(p)),
                 LAMBDA p1, statements : Ret(p1, Ok(BlockStmt(statements))))
    ELSE Parser_expression_statement(p)

Parser_return_statement(p) ==
    Try(Parser_force_previous_token(p),
        LAMBDA p1, keyword :
    Try(IF Parser_check_type(p1, "Semicolon") THEN Ret(p1, Ok(None))
        ELSE Parser_expression(p1),
        LAMBDA p2, value :
    Try(Parser_consume_token(p2, "Semicolon", "Expect ';' after return value"),
        LAMBDA p3, semicolon : Ret(p3, Ok(ReturnStmt(keyword, value))))))

Parser_for_statement(p) ==
    Try(Parser_consume_token(p, "LeftParenthesis", "Expect '(' after 'for'"),
        LAMBDA p1, left :
    Try(IF Parser_matches(p1, {"Semicolon"}) THEN Ret(Parser_advance(p1), Ok(None))
        ELSE IF Parser_matches(p1, {"Var"}) THEN Parser_var_declaration(Parser_advance(p1))
        ELSE Parser_expression_statement(p1),
        LAMBDA p2, initializer :
    Try(IF Parser_check_type(p2, "Semicolon") THEN Ret(p2, Ok(None))
        ELSE Parser_expression(p2),
        LAMBDA p3, condition :
    Try(Parser_consume_token(p3, "Semicolon", "Expected ';' after loop condition"),
        LAMBDA p4, semicolon :
    Try(IF Parser_check_type(p4, "RightParenthesis") THEN Ret(p4, Ok(None))
        ELSE Parser_expression(p4),
        LAMBDA p5, increment :
    Try(Parser_consume_token(p5, "RightParenthesis", "Expected ')' after for clauses"),
        LAMBDA p6, right :
    Try(Parser_statement(p6),
        LAMBDA p7, body :
        Ret(p7, Ok(Parser_for_desugar(initializer, condition, increment, body))))))))))

Parser_while_statement(p) ==
    Try(Parser_consume_token(p, "LeftParenthesis", "Expected '(' after 'while'"),
        LAMBDA p1, left :
    Try(Parser_expression(p1),
        LAMBDA p2, condition :
    Try(Parser_consume_token(p2, "RightParenthesis", "Expected ')' after condition"),
        LAMBDA p3, right :
    Try(Parser_statement(p3),
        LAMBDA p4, body : Ret(p4, Ok(WhileStmt(condition, body)))))))

Parser_if_statement(p) ==
    Try(Parser_consume_token(p, "LeftParenthesis", "Expected '(' after 'if'"),
        LAMBDA p1, left :
    Try(Parser_expression(p1),
        LAMBDA p2, condition :
    Try(Parser_consume_token(p2, "RightParenthesis", "Expect ')' after if condition"),
        LAMBDA p3, right :
    Try(Parser_statement(p3),
        LAMBDA p4, then_branch :
    Try(IF Parser_matches(p4, {"Else"}) THEN Parser_statement(Parser_advance(p4))
        ELSE Ret(p4, Ok(None)),
        LAMBDA p5, else_branch :
        Ret(p5, Ok(IfStmt(condition, then_branch, else_branch))))))))

\* the loop of block
Parser_block_statements(p, statements) ==
    IF ~Parser_check_type(p, "RightBrace") /\ ~Parser_is_at_end(p)
        THEN Try(Parser_declaration(p),
                 LAMBDA p1, stmt : Parser_block_statements(p1, Append(statements, stmt)))
        ELSE Ret(p, Ok(statements))

Parser_block(p) ==
    Try(Parser_block_statements(p, <<>>),
        LAMBDA p1, statements :
    Try(Parser_consume_token(p1, "RightBrace", "Expected '}'"),
        LAMBDA p2, brace : Ret(p2, Ok(statements))))

Parser_print_statement(p) ==
    Try(Parser_expression(p),
        LAMBDA p1, expr :
    Try(Parser_consume_token(p1, "Semicolon", "Expected ';' after value"),
        LAMBDA p2, semicolon : Ret(p2, Ok(PrintStmt(expr)))))

Parser_expression_statement(p) ==
    Try(Parser_expression(p),
        LAMBDA p1, expr :
    Try(Parser_consume_token(p1, "Semicolon", "Expected ';' after expression"),
        LAMBDA p2, semicolon : Ret(p2, Ok(ExpressionStmt(expr)))))

Parser_expression(p) == Parser_assignment(p)

Parser_assignment(p) ==
    Try(Parser_parse_binary(p, "or"),
        LAMBDA p1, expr :
        IF ~Parser_matches(p1, {"Equal"}) THEN Ret(p1, Ok(expr))
        ELSE Try(Parser_force_previous_token(Parser_advance(p1)),
                 LAMBDA p2, equals :
             Try(Parser_assignment(p2),
                 LAMBDA p3, value :
                 IF expr.type = "Variable"
                     THEN Ret(p3, Ok(Assign(expr.name, value)))
                     ELSE Ret(p3, Err(FoxError_token("InvalidAssignmentTarget", "",
                                                     equals))))))

\* the operand of a level: the next higher level
Parser_operand(p, level) ==
    CASE level = "or" -> Parser_parse_binary(p, "and")
      [] level = "and" -> Parser_parse_binary(p, "equality")
      [] level = "equality" -> Parser_parse_binary(p, "comparison")
      [] level = "comparison" -> Parser_parse_binary(p, "term")
      [] level = "term" -> Parser_parse_binary(p, "factor")
      [] level = "factor" -> Parser_unary(p)

Parser_binary_loop(p, expr, level) ==
    IF Parser_matches(p, Parser_operators(level))
        THEN Try(Parser_force_previous_token(Parser_advance(p)),
                 LAMBDA p1, operator :
             Try(Parser_operand(p1, level),
                 LAMBDA p2, right :
                 Parser_binary_loop(p2, Parser_node(level, expr, operator, right), level)))
        ELSE Ret(p, Ok(expr))

Parser_parse_binary(p, level) ==
    Try(Parser_operand(p, level),
        LAMBDA p1, expr : Parser_binary_loop(p1, expr, level))

Parser_unary(p) ==
    IF Parser_matches(p, {"Bang", "Minus"})
        THEN Try(Parser_force_previous_token(Parser_advance(p)),
                 LAMBDA p1, operator :
             Try(Parser_unary(p1),
                 LAMBDA p2, right : Ret(p2, Ok(Unary(right, operator)))))
        ELSE Parser_call(p)

\* the loop of call
Parser_call_loop(p, expr) ==
    IF Parser_matches(p, {"LeftParenthesis"})
        THEN Try(Parser_finish_call(Parser_advance(p), expr),
                 LAMBDA p1, call : Parser_call_loop(p1, call))
        ELSE Ret(p, Ok(expr))

Parser_call(p) ==
    Try(Parser_primary(p),
        LAMBDA p1, expr : Parser_call_loop(p1, expr))

\* the loop over the arguments
Parser_call_arguments(p, args) ==
    IF Len(args) >= MAX_FUNCTION_ARGUMENT_COUNT
        THEN Ret(p, Err(Parser_error(p, "TooManyFunctionArguments", "")))
    ELSE Try(Parser_expression(p),
             LAMBDA p1, expr :
         IF Parser_matches(p1, {"Comma"})
             THEN Parser_call_arguments(Parser_advance(p1), Append(args, expr))
             ELSE Ret(p1, Ok(Append(args, expr))))

Parser_finish_call(p, callee) ==
    Try(IF Parser_check_type(p, "RightParenthesis") THEN Ret(p, Ok(<<>>))
        ELSE Parser_call_arguments(p, <<>>),
        LAMBDA p1, args :
    Try(Parser_consume_token(p1, "RightParenthesis", "Expected ')' after arguments"),
        LAMBDA p2, paren : Ret(p2, Ok(Call(callee, paren, args)))))

Parser_primary(p) ==
    IF Parser_matches(p, {"False"}) THEN Ret(Parser_advance(p), Ok(Literal(Bool(FALSE))))
    ELSE IF Parser_matches(p, {"True"}) THEN Ret(Parser_advance(p), Ok(Literal(Bool(TRUE))))
    ELSE IF Parser_matches(p, {"Nil"}) THEN Ret(Parser_advance(p), Ok(Literal(Nil)))
    ELSE IF Parser_matches(p, {"Number", "String"})
        THEN Try(Parser_force_previous_token(Parser_advance(p)),
                 LAMBDA p1, prev : Ret(p1, Ok(Literal(prev.literal))))
    ELSE IF Parser_matches(p, {"Identifier"})
        THEN Try(Parser_force_previous_token(Parser_advance(p)),
                 LAMBDA p1, prev : Ret(p1, Ok(Variable(prev))))
    ELSE IF Parser_matches(p, {"LeftParenthesis"})
        THEN Try(Parser_expression(Parser_advance(p)),
                 LAMBDA p1, expr :
             Try(Parser_consume_token(p1, "RightParenthesis", "Expected ')'"),
                 LAMBDA p2, right : Ret(p2, Ok(Grouping(expr)))))
    ELSE Ret(p, Err(Parser_error(p, "ExpressionExpected", "")))

(***************************************************************************)
(* SpecParse: Parser::parse on the tokens of a program.  ParseDeclaration  *)
(* is one turn of its loop, ParseFinish its return.  The programs are for  *)
(* statements with every choice of clauses, assignments to every kind of   *)
(* target, calls and functions with few and with many arguments, chains of *)
(* binary operators, and a class with a call of a method.                  *)
(***************************************************************************)
Tok(token_type, lexeme, literal) ==
    [token_type |-> token_type, lexeme |-> lexeme, literal |-> literal,
     loc |-> CodeLocation(1, 0)]
Spelling(kind) ==
    CASE kind = "LeftParenthesis" -> "("  [] kind = "RightParenthesis" -> ")"
      [] kind = "LeftBrace" -> "{"        [] kind = "RightBrace" -> "}"
      [] kind = "Comma" -> ","            [] kind = "Dot" -> "."
      [] kind = "Minus" -> "-"            [] kind = "Plus" -> "+"
      [] kind = "Semicolon" -> ";"        [] kind = "Slash" -> "/"
      [] kind = "Star" -> "*"             [] kind = "Bang" -> "!"
      [] kind = "Equal" -> "="            [] kind = "EqualEqual" -> "=="
      [] kind = "Less" -> "<"             [] kind = "Or" -> "or"
      [] kind = "And" -> "and"            [] kind = "Class" -> "class"
      [] kind = "For" -> "for"            [] kind = "Fun" -> "fun"
      [] kind = "Print" -> "print"        [] kind = "Var" -> "var"
      [] kind = "While" -> "while"        [] kind = "Eof" -> ""
Kw(kind) == Tok(kind, Spelling(kind), Nil)
IdTok(name) == Tok("Identifier", name, Nil)
NumTok(n) == Tok("Number", <<"0", "1", "2">>[n + 1], Num(n))
StrTok(s) == Tok("String", "\"" \o s \o "\"", Text(s))
\* the location of a token is its place in the source
Located(tokens) ==
    [i \in 1..Len(tokens) |-> [tokens[i] EXCEPT !.loc = CodeLocation(1, i)]]

\* a program of the corpus: its kind and up to four choices
PProg(kind, a, b, c, d) == [kind |-> kind, a |-> a, b |-> b, c |-> c, d |-> d]

\* for (init; cond; incr) body, each clause there or omitted
InitClause(a) ==
    CASE a = 0 -> <<Kw("Semicolon")>>
      [] a = 1 -> <<Kw("Var"), IdTok("i"), Kw("Equal"), NumTok(0), Kw("Semicolon")>>
      [] a = 2 -> <<IdTok("i"), Kw("Equal"), NumTok(0), Kw("Semicolon")>>
CondClause(b) ==
    IF b = 0 THEN <<>> ELSE <<IdTok("i"), Kw("Less"), NumTok(2)>>
IncrClause(c) ==
    IF c = 0 THEN <<>>
    ELSE <<IdTok("i"), Kw("Equal"), IdTok("i"), Kw("Plus"), NumTok(1)>>
BodyClause(d) ==
    IF d = 1 THEN <<Kw("Print"), IdTok("i"), Kw("Semicolon")>>
    ELSE <<Kw("LeftBrace"), Kw("Print"), IdTok("i"), Kw("Semicolon"), Kw("RightBrace")>>
ForTokens(a, b, c, d) ==
    <<Kw("For"), Kw("LeftParenthesis")>> \o InitClause(a) \o CondClause(b)
        \o <<Kw("Semicolon")>> \o IncrClause(c) \o <<Kw("RightParenthesis")>>
        \o BodyClause(d) \o <<Kw("Print"), NumTok(1), Kw("Semicolon"), Kw("Eof")>>

\* target = 1;
Targets ==
    <<  <<IdTok("a")>>,
        <<IdTok("a"), Kw("Dot"), IdTok("b")>>,
        <<NumTok(1)>>,
        <<StrTok("s")>>,
        <<Kw("LeftParenthesis"), IdTok("a"), Kw("RightParenthesis")>>,
        <<IdTok("f"), Kw("LeftParenthesis"), Kw("RightParenthesis")>>,
        <<IdTok("a"), Kw("Plus"), IdTok("b")>>,
        <<Kw("Minus"), IdTok("a")>>,
        <<IdTok("a"), Kw("Or"), IdTok("b")>>,
        <<IdTok("b"), Kw("Equal"), IdTok("a")>>  >>
AssignTokens(a) ==
    Targets[a] \o <<Kw("Equal"), NumTok(1), Kw("Semicolon"), Kw("Eof")>>

\* n tokens 'name' separated by commas
RECURSIVE CommaList(_, _)
CommaList(name, n) ==
    IF n = 0 THEN <<>>
    ELSE IF n = 1 THEN <<IdTok(name)>>
    ELSE CommaList(name, n - 1) \o <<Kw("Comma"), IdTok(name)>>
\* f(x, ..., x);  and  fun f(x, ..., x) { }
CallTokens(n) ==
    <<IdTok("f"), Kw("LeftParenthesis")>> \o CommaList("x", n)
        \o <<Kw("RightParenthesis"), Kw("Semicolon"), Kw("Eof")>>
FunTokens(n) ==
    <<Kw("Fun"), IdTok("f"), Kw("LeftParenthesis")>> \o CommaList("x", n)
        \o <<Kw("RightParenthesis"), Kw("LeftBrace"), Kw("RightBrace"), Kw("Eof")>>
ListLengths ==
    {0, 1, 2, MAX_FUNCTION_ARGUMENT_COUNT - 1, MAX_FUNCTION_ARGUMENT_COUNT,
     MAX_FUNCTION_ARGUMENT_COUNT + 1, MAX_FUNCTION_ARGUMENT_COUNT + 2}

\* print a op b op c;
ChainOps == <<"Or", "And", "EqualEqual", "Less", "Plus", "Star">>
ChainTokens(a, b) ==
    <<Kw("Print"), IdTok("a"), Kw(ChainOps[a]), IdTok("b"), Kw(ChainOps[b]), IdTok("c"),
      Kw("Semicolon"), Kw("Eof")>>

\* class Greet { hello() { print "hi"; } } Greet().hello();  and the same class
\* with a superclass
ClassTokens(a) ==
    <<Kw("Class"), IdTok("Greet")>>
        \o (IF a = 1 THEN <<Kw("Less"), IdTok("Base")>> ELSE <<>>)
        \o <<Kw("LeftBrace"), IdTok("hello"), Kw("LeftParenthesis"),
             Kw("RightParenthesis"), Kw("LeftBrace"), Kw("Print"), StrTok("hi"),
             Kw("Semicolon"), Kw("RightBrace"), Kw("RightBrace"),
             IdTok("Greet"), Kw("LeftParenthesis"), Kw("RightParenthesis"), Kw("Dot"),
             IdTok("hello"), Kw("LeftParenthesis"), Kw("RightParenthesis"),
             Kw("Semicolon"), Kw("Eof")>>

ParseCorpus ==
    {PProg("for", a, b, c, d) : a \in 0..2, b \in 0..1, c \in 0..1, d \in 1..2}
        \cup {PProg("assign", a, 0, 0, 0) : a \in 1..Len(Targets)}
        \cup {PProg("call", n, 0, 0, 0) : n \in ListLengths}
        \cup {PProg("fun", n, 0, 0, 0) : n \in ListLengths}
        \cup {PProg("chain", a, b, 0, 0) : a \in 1..Len(ChainOps), b \in 1..Len(ChainOps)}
        \cup {PProg("class", a, 0, 0, 0) : a \in 0..1}
        \cup {PProg("empty", 0, 0, 0, 0)}

ProgramTokens(prog) ==
    Located(CASE prog.kind = "for" -> ForTokens(prog.a, prog.b, prog.c, prog.d)
              [] prog.kind = "assign" -> AssignTokens(prog.a)
              [] prog.kind = "call" -> CallTokens(prog.a)
              [] prog.kind = "fun" -> FunTokens(prog.a)
              [] prog.kind = "chain" -> ChainTokens(prog.a, prog.b)
              [] prog.kind = "class" -> ClassTokens(prog.a)
              [] prog.kind = "empty" -> <<Kw("Eof")>>)

\* program is history: the program of the corpus the tokens are those of
InitParse ==
    /\ pid = NoProgram
    /\ phase = "parse"
    /\ ip = 0
    /\ interp = Interpreter_new
    /\ outcome = Ok(Unit)
    /\ lastOp = NoOp
    /\ operands = NoOperands
    /\ scanner = NoScanner
    /\ \E prog \in ParseCorpus :
          parser = [phase |-> "parsing", p |-> Parser_new(ProgramTokens(prog)),
                    statements |-> <<>>, result |-> None, program |-> prog]

ParseDeclaration ==
    /\ parser.phase = "parsing"
    /\ ~Parser_is_at_end(parser.p)
    /\ \E res \in {Parser_declaration(parser.p)} :
          parser' =
              IF res.r.ok
                  THEN [parser EXCEPT !.p = res.s, !.statements = Append(@, res.r.v)]
                  ELSE [parser EXCEPT !.phase = "failed", !.p = res.s,
                                      !.statements = <<>>, !.result = res.r]
    /\ UNCHANGED <<interp, pid, phase, ip, outcome, lastOp, operands, scanner>>

ParseFinish ==
    /\ parser.phase = "parsing"
    /\ Parser_is_at_end(parser.p)
    /\ parser' = [parser EXCEPT !.phase = "done", !.result = Ok(parser.statements)]
    /\ UNCHANGED <<interp, pid, phase, ip, outcome, lastOp, operands, scanner>>

NextParse == ParseDeclaration \/ ParseFinish

SpecParse == InitParse /\ [][NextParse]_vars

(***************************************************************************)
(* Properties                                                              *)
(***************************************************************************)
Events(ev) == {i \in 1..Len(interp.log) : interp.log[i].ev = ev}
Printed(v) == \E i \in 1..Len(interp.out) : interp.out[i] = v

\* C1: whenever the evaluator evaluates a Variable, Assign or This expression that
\* has a depth d in the side table, the environment d hops above the current one
\* holds the name (get_at succeeds, assign_at overwrites an existing binding).
DepthContract ==
    \A i \in Events("lookup") : interp.log[i].holds

\* C2: every block, every class declaration and every function body leaves the
\* current-environment handle as it found it, whether it ends normally, with a
\* runtime error or with a Return signal; between top-level statements the current
\* environment is the global one.
EnvironmentRestored ==
    /\ \A i \in Events("scope") :
          interp.log[i].stmt \in {"Block", "Class"} =>
              interp.log[i].after = interp.log[i].before
    /\ \A i \in Events("call") : interp.log[i].after = interp.log[i].before
    /\ phase \in {"run", "done", "failed"} => interp.environment = interp.globals

\* a function body left by a Return through nested blocks, a block left by a runtime
\* error, and a class with a superclass, all in one run
EnvironmentRestoredWitness ==
    /\ pid.name = "error_in_block"
    /\ phase = "failed"
    /\ outcome.err.kind = "Runtime"
    /\ \E i \in Events("scope") : interp.log[i].stmt = "Block" /\ interp.log[i].exit = "Return"
    /\ \E i \in Events("scope") : interp.log[i].stmt = "Block" /\ interp.log[i].exit = "Runtime"
    /\ \E i \in Events("scope") : interp.log[i].stmt = "Class" /\ interp.log[i].exit = "ok"
    /\ Len(interp.classes) = 2 /\ interp.classes[2].superclass = 1

\* C3: a closure holds the environment of its declaration by reference: the counter
\* returned by the factory prints 1, 2, 3 on successive calls, and what one closure
\* assigns to a captured variable is read by another closure over the same environment.
ClosureByReference ==
    /\ pid.name = "counter" =>
          /\ \A i \in 1..Len(interp.out) : interp.out[i] = Num(i)
          /\ phase = "done" => Len(interp.out) = 3
    /\ pid.name = "shared" =>
          /\ \A i \in 1..Len(interp.out) : interp.out[i] = Num(i - 1)
          /\ phase = "done" => Len(interp.out) = 3
    /\ pid.name \in {"counter", "shared"} => phase /= "failed"

ClosureByReferenceWitness ==
    /\ pid.name = "counter"
    /\ phase = "done"
    /\ interp.out = <<Num(1), Num(2), Num(3)>>

\* C4: a return at any depth of blocks, ifs and loops of a function body ends the
\* body (nothing after it runs), the call evaluates to the carried value (nil without
\* an expression), and interpret never ends with an error of kind Return.
ReturnConsumedByCall ==
    /\ phase = "failed" => outcome.err.kind /= "Return"
    /\ ~Printed(Text("unreachable"))
    /\ \A i \in Events("call") :
          (~interp.log[i].body.ok /\ ~interp.log[i].is_initializer) =>
              (interp.log[i].body.err.kind = "Return" =>
                  interp.log[i].result = Ok(interp.log[i].body.err.value))
    /\ (pid.name = "nested_return" /\ phase = "done") =>
          interp.out = <<Num(pid.a), Text("after")>>
    /\ (pid.name = "bare_return" /\ phase = "done") => interp.out = <<Nil>>
    /\ pid.name \in {"nested_return", "bare_return"} => phase \notin {"failed", "rejected"}

\* the return sits in an if inside two blocks inside a while that has looped
ReturnConsumedByCallWitness ==
    /\ pid = Prog("nested_return", MaxNum, 0, 0)
    /\ phase = "done"
    /\ interp.out = <<Num(MaxNum), Text("after")>>
    /\ \E i \in Events("scope") : interp.log[i].stmt = "While" /\ interp.log[i].exit = "Return"

\* C5: a call of a class evaluates to the instance it has just created, and a call
\* of an init method through an instance evaluates to that instance, both when the
\* body runs to its end and when it executes "return;".
InitializerYieldsInstance ==
    /\ \A i \in Events("called") :
          LET e == interp.log[i] IN
          /\ (e.callee.t = "Class" /\ e.result.ok) =>
                e.result.v = Instance(e.instances + 1)
          /\ (e.callee.t = "Callee" /\ e.result.ok) =>
                (e.callee.is_initializer =>
                    e.result.v = interp.envs[e.callee.closure].values[KEYWORD_THIS])
    /\ pid.name = "class_init" =>
          /\ phase \notin {"failed", "rejected"}
          /\ phase = "done" => interp.out = <<Num(5), Num(pid.c)>>

\* Box(0) leaves init by "return;", b.init(1) runs init to its end; the field set
\* through the result of b.init is read back through b
InitializerYieldsInstanceWitness ==
    /\ pid = Prog("class_init", 0, 0, 1)
    /\ phase = "done"
    /\ interp.out = <<Num(5), Num(1)>>
    /\ \E i \in Events("call") :
          interp.log[i].is_initializer /\ ~interp.log[i].body.ok
    /\ \E i \in Events("call") :
          interp.log[i].is_initializer /\ interp.log[i].body.ok

\* C6: super.method() inside a subclass method yields the method found in the
\* superclass's method table, bound to the instance the enclosing method was called on.
SuperBindsSubclassInstance ==
    /\ \A i \in Events("super") :
          LET e == interp.log[i] IN
          /\ e.result /= None
          /\ e.result.decl = interp.classes[e.superclass].methods[e.method].decl
          /\ interp.envs[e.result.closure].values[KEYWORD_THIS] = Instance(e.this)
    /\ pid.name = "super_call" =>
          /\ phase /= "failed"
          /\ phase = "done" => interp.out = <<Text("AB")>>

\* C7: "a or b" is a when a is truthy, "a and b" is a when a is falsy, and then b is
\* not evaluated; otherwise the result is b's value.  The result is the operand
\* itself, never a bool made from it.
Truthy(v) == v /= Nil /\ v /= Bool(FALSE)
ShortCircuits(p) ==
    \/ LogicalOps[p.c] = "Or" /\ Truthy(LiteralValues[p.a])
    \/ LogicalOps[p.c] = "And" /\ ~Truthy(LiteralValues[p.a])

LogicalShortCircuit ==
    pid.name = "logical" =>
        /\ phase \notin {"failed", "rejected"}
        /\ ShortCircuits(pid) => ~Printed(Text("side"))
        /\ phase = "done" =>
              interp.out = IF ShortCircuits(pid)
                               THEN <<LiteralValues[pid.a]>>
                               ELSE <<Text("side"), LiteralValues[pid.b]>>

\* 0 or side(): 0 is truthy, the result is the number 0 and side() is not called
LogicalShortCircuitWitness ==
    /\ pid.name = "logical"
    /\ LiteralValues[pid.a] = Num(0) /\ LogicalOps[pid.c] = "Or"
    /\ phase = "done"
    /\ interp.out = <<Num(0)>>

\* C8: == and != never fail and give a bool: structural equality for nil, numbers,
\* strings and bools, identity (same declaration, same captured environment) for
\* callables, builtin or user-defined; never equal across types; != negates ==.
IsCallable(v) == v.t \in {"BuiltinCallee", "Callee"}
ValueEquality(l, r) ==
    CASE l.t /= r.t -> FALSE
      [] l.t = "Nil" /\ r.t = "Nil" -> TRUE
      [] l.t = "Double" /\ r.t = "Double" -> l.num = r.num /\ l.den = r.den
      [] l.t = "Text" /\ r.t = "Text" -> l.s = r.s
      [] l.t = "Bool" /\ r.t = "Bool" -> l.b = r.b
      [] l.t = "BuiltinCallee" /\ r.t = "BuiltinCallee" -> l.body = r.body
      [] l.t = "Callee" /\ r.t = "Callee" -> l.decl = r.decl /\ l.closure = r.closure

EqualityByValue ==
    (phase = "evaluated" /\ operands.op \in {"EqualEqual", "BangEqual"}) =>
        LET l == OperandValue(operands.l)
            r == OperandValue(operands.r)
        IN  /\ outcome.ok
            /\ outcome.v.t = "Bool"
            /\ (l.t /= r.t \/ l.t \in {"Nil", "Double", "Text", "Bool"} \/ IsCallable(l)) =>
                  outcome.v.b = IF operands.op = "EqualEqual" THEN ValueEquality(l, r)
                                ELSE ~ValueEquality(l, r)

\* C9: on two numbers + - * / give the sum, difference, product and quotient and
\* > >= < <= the truth of the ordering; + on two strings concatenates left then
\* right; any other pair of operand types is an error.
ArithmeticOps == {"Minus", "Slash", "Star", "Plus", "Greater", "GreaterEqual", "Less",
                  "LessEqual"}
Holders(envs, e, name) ==
    {k \in 0..Len(envs) : /\ Environment_hop(envs, e, k) /= 0
                          /\ name \in DOMAIN envs[Environment_hop(envs, e, k)].values}
Nearest(envs, e, name) ==
    IF Holders(envs, e, name) = {} THEN 0
    ELSE Environment_hop(envs, e,
             CHOOSE k \in Holders(envs, e, name) : \A j \in Holders(envs, e, name) : k <= j)

AssignUpdatesNearest ==
    [][lastOp'.op = "assign" =>
         LET target == Nearest(interp.envs, lastOp'.e, lastOp'.name) IN
         /\ Len(interp'.envs) = Len(interp.envs)
         /\ \A i \in Envs :
               /\ interp'.envs[i].enclosing = interp.envs[i].enclosing
               /\ DOMAIN interp'.envs[i].values = DOMAIN interp.envs[i].values
               /\ \A n \in DOMAIN interp.envs[i].values :
                     interp'.envs[i].values[n] =
                         IF i = target /\ n = lastOp'.name THEN lastOp'.value
                         ELSE interp.envs[i].values[n]
         /\ target /= 0 => outcome' = Ok(Unit)
         /\ target = 0 =>
               /\ ~outcome'.ok
               /\ outcome'.err.kind = "UndefinedVariable"
               /\ outcome'.err.token = Ident(lastOp'.name, 0)
               /\ interp'.envs = interp.envs]_vars

\* an assignment through a child environment that has not the name reached an
\* ancestor, while another environment holds the same name with another value
AssignUpdatesNearestWitness ==
    /\ lastOp.op = "assign"
    /\ outcome.ok
    /\ ~contains_key(interp.envs[lastOp.e].values, lastOp.name)
    /\ \E i \in Envs : /\ contains_key(interp.envs[i].values, lastOp.name)
                       /\ interp.envs[i].values[lastOp.name] /= lastOp.value

\* C11: get_at(d, name) reads only the environment exactly d hops above the
\* receiver (d = 0 is the receiver): it returns that environment's binding, and an
\* error value when the chain has fewer than d ancestors or that environment has
\* not the name, whatever nearer or farther environments hold.  assign_at(d, name,
\* v) writes into that environment only and leaves every other one unchanged.
ExactAncestor(envs, e, d) == Environment_hop(envs, e, d)

OnlyValueChanged(before, after, target, name, value) ==
    /\ Len(after) = Len(before)
    /\ \A i \in 1..Len(before) :
          /\ after[i].enclosing = before[i].enclosing
          /\ DOMAIN after[i].values =
                 DOMAIN before[i].values \cup (IF i = target THEN {name} ELSE {})
          /\ \A n \in DOMAIN after[i].values :
                after[i].values[n] =
                    IF i = target /\ n = name THEN value ELSE before[i].values[n]

AtDistanceOnly ==
    [][LET target == ExactAncestor(interp.envs, lastOp'.e, lastOp'.d) IN
       /\ lastOp'.op = "get_at" =>
             /\ interp' = interp
             /\ outcome' =
                   IF target /= 0 /\ contains_key(interp.envs[target].values, lastOp'.name)
                       THEN Ok(interp.envs[target].values[lastOp'.name])
                   ELSE outcome'
             /\ (target = 0 \/ ~contains_key(interp.envs[target].values, lastOp'.name))
                   => ~outcome'.ok
       /\ lastOp'.op = "assign_at" =>
             /\ target /= 0 =>
                   /\ outcome' = Ok(Unit)
                   /\ OnlyValueChanged(interp.envs, interp'.envs, target,
                                       lastOp'.name, lastOp'.value)
             /\ target = 0 => /\ ~outcome'.ok
                              /\ interp'.envs = interp.envs]_vars

\* get_at at a distance of at least one failed on an environment that exists and
\* has not the name, while the receiver and a farther ancestor both hold it
AtDistanceOnlyWitness ==
    /\ lastOp.op = "get_at"
    /\ lastOp.d >= 1
    /\ ~outcome.ok
    /\ ExactAncestor(interp.envs, lastOp.e, lastOp.d) /= 0
    /\ contains_key(interp.envs[lastOp.e].values, lastOp.name)
    /\ ExactAncestor(interp.envs, lastOp.e, lastOp.d + 1) /= 0
    /\ contains_key(interp.envs[ExactAncestor(interp.envs, lastOp.e, lastOp.d + 1)].values,
                    lastOp.name)

\* C12: on a source made of valid punctuation, operators, keywords, identifiers,
\* string literals and number literals separated by whitespace, scan_tokens
\* succeeds and returns one token per lexeme, in order, each with the kind of its
\* lexeme (the two-character operators, a keyword kind exactly for the 16
\* keywords), followed by one end-of-input token, which is the last; the empty
\* source gives the end-of-input token alone.
Kinds(tokens) == [i \in 1..Len(tokens) |-> tokens[i].token_type]
LexemeKinds(lexemes) == [i \in 1..Len(lexemes) |-> lexemes[i].kind]
Finished == scanner.phase \in {"done", "failed"}

OneTokenPerLexeme ==
    (Finished /\ scanner.of_lexemes) =>
        /\ scanner.phase = "done"
        /\ Kinds(scanner.result.v) = LexemeKinds(scanner.lexemes) \o <<"Eof">>

\* C13: the value of a string literal is the characters strictly between its
\* quotes (newlines kept); the value of a number literal is the numeric value of
\* its lexeme, and that lexeme is the maximal run of digits, optionally followed
\* by one '.' and at least one digit: a '.' that no digit follows is not part of
\* the number.
Source == scanner.sc.source
CharAt(i) == IF i \in 1..Len(Source) THEN Source[i] ELSE NoChar
Emits == /\ scanner.phase = "scanning"
         /\ scanner'.phase /= "failed"
         /\ Len(scanner'.tokens) = Len(scanner.tokens) + 1
Emitted == scanner'.tokens[Len(scanner'.tokens)]

\* the characters at offsets a .. b-1, as a string
RECURSIVE Between(_, _)
Between(a, b) == IF a >= b THEN "" ELSE Between(a, b - 1) \o Source[b]

DigitRun(a, b) == \A i \in (a + 1)..b : Source[i] \in Digits
DigitOf(ch) == CHOOSE n \in 0..9 : <<"0", "1", "2", "3", "4", "5", "6", "7", "8", "9">>[n + 1] = ch
RECURSIVE DigitsValue(_, _)
DigitsValue(a, b) ==
    IF a >= b THEN 0
    ELSE IF Source[b] = "." THEN DigitsValue(a, b - 1)
    ELSE 10 * DigitsValue(a, b - 1) + DigitOf(Source[b])
\* the value of the lexeme at offsets a .. b-1 whose whole part ends at offset m
DecimalValue(a, m, b) ==
    Rational(DigitsValue(a, b), IF m = b THEN 1 ELSE 10 ^ (b - m - 1))

LiteralsByExtent ==
    [][Emits =>
         LET from == scanner.sc.current
             to == scanner'.sc.current
         IN  /\ Emitted.token_type = "String" =>
                   /\ to >= from + 2
                   /\ Source[from + 1] = "\"" /\ Source[to] = "\""
                   /\ \A i \in (from + 2)..(to - 1) : Source[i] /= "\""
                   /\ Emitted.literal = Text(Between(from + 1, to - 1))
             /\ CharAt(from + 1) \in Digits => Emitted.token_type = "Number"
             /\ Emitted.token_type = "Number" =>
                   \E m \in (from + 1)..to :
                      /\ DigitRun(from, m)
                      /\ CharAt(m + 1) \notin Digits
                      /\ IF CharAt(m + 1) = "." /\ CharAt(m + 2) \in Digits
                             THEN /\ to >= m + 2
                                  /\ DigitRun(m + 1, to)
                                  /\ CharAt(to + 1) \notin Digits
                             ELSE to = m
                      /\ Emitted.literal = DecimalValue(from, m, to)]_vars

\* a number with a fraction was scanned, and the '.' after it, which no digit
\* follows, became a token of its own
LiteralsByExtentWitness ==
    /\ scanner.phase = "done"
    /\ \E i \in 1..(Len(scanner.tokens) - 1) :
          /\ scanner.tokens[i].token_type = "Number"
          /\ scanner.tokens[i].literal.den = 10
          /\ scanner.tokens[i + 1].token_type = "Dot"
          /\ scanner.tokens[i + 1].loc.abs_position = scanner.tokens[i].loc.abs_position + 1

\* C14: in every scanner state the line counter is 1 plus the number of newline
\* characters consumed so far, those inside a string literal included; a '//'
\* comment stops before the newline that ends it (which is counted when it is
\* consumed), emits no token, and hides no token of the following line.
Consumed == IF scanner.sc.current < Len(Source) THEN scanner.sc.current ELSE Len(Source)
NewlinesConsumed == Cardinality({i \in 1..Consumed : Source[i] = "\n"})
AtComment ==
    /\ scanner.phase = "scanning"
    /\ CharAt(scanner.sc.current + 1) = "/"
    /\ CharAt(scanner.sc.current + 2) = "/"

LineCounter ==
    /\ [](scanner.phase /= "none" => scanner.sc.line = 1 + NewlinesConsumed)
    /\ [][AtComment =>
            /\ scanner'.phase = "scanning"
            /\ scanner'.tokens = scanner.tokens
            /\ scanner'.sc.current >= scanner.sc.current + 2
            /\ \A i \in (scanner.sc.current + 1)..scanner'.sc.current : Source[i] /= "\n"
            /\ CharAt(scanner'.sc.current + 1) \in {"\n", NoChar}]_vars

\* a comment, then a string literal with a newline in it on the next line: the
\* token of the string is there, on line 3
LineCounterWitness ==
    /\ scanner.phase = "done"
    /\ CharAt(1) = "/" /\ CharAt(2) = "/"
    /\ \E i \in 1..Len(scanner.tokens) :
          /\ scanner.tokens[i].token_type = "String"
          /\ scanner.tokens[i].loc.line = 3

\* C15: a string literal that is not terminated fails with UnterminatedString; on
\* a scanner error (UnterminatedString or UnexpectedCharacter) the result is that
\* first error alone, without a list of tokens, and no character after the point
\* of failure is scanned.
Unterminated(from) ==
    /\ CharAt(from + 1) = "\""
    /\ \A i \in (from + 2)..Len(Source) : Source[i] /= "\""

FirstErrorAlone ==
    /\ [](scanner.phase = "failed" =>
             /\ ~scanner.result.ok
             /\ scanner.tokens = <<>>)
    /\ [][scanner.phase = "scanning" =>
             LET from == scanner.sc.current IN
             /\ Unterminated(from) =>
                   /\ scanner'.phase = "failed"
                   /\ scanner'.result.err.kind = "UnterminatedString"
             /\ scanner'.phase = "failed" =>
                   \/ /\ scanner'.result.err.kind = "UnterminatedString"
                      /\ Unterminated(from)
                   \/ /\ scanner'.result.err.kind = "UnexpectedCharacter"
                      /\ from < Len(Source)
                      /\ scanner'.sc.current = from + 1]_vars
    /\ [][scanner.phase = "failed" => scanner' = scanner]_vars

\* the scanner failed after it had scanned a token, with characters left
FirstErrorAloneWitness ==
    /\ scanner.phase = "failed"
    /\ scanner.sc.start > 0
    /\ scanner.sc.current < Len(Source)
    /\ \E i \in 1..scanner.sc.start : Source[i] = "1"

\* C16: for (init; cond; incr) body parses to the same AST, up to the locations
\* of the tokens, as the hand-written { init; while (cond) { body; incr; } }: the
\* increment follows the body inside a block, the while wraps that block, and the
\* initializer is the first statement of an outer block.
FullFor(prog) == prog.kind = "for" /\ prog.a >= 1 /\ prog.b = 1 /\ prog.c = 1
\* the hand-written program, made of the tokens of the clauses of the for
\* statement (with their locations) and of the tokens it adds
HandWritten(prog) ==
    LET tokens == ProgramTokens(prog)
        init == 2 + Len(InitClause(prog.a))
        cond == init + Len(CondClause(prog.b))
        incr == cond + 1 + Len(IncrClause(prog.c))
        body == incr + 1 + Len(BodyClause(prog.d))
    IN  <<Kw("LeftBrace")>> \o SubSeq(tokens, 3, init)
            \o <<Kw("While"), Kw("LeftParenthesis")>> \o SubSeq(tokens, init + 1, cond)
            \o <<Kw("RightParenthesis"), Kw("LeftBrace")>>
            \o SubSeq(tokens, incr + 2, body) \o SubSeq(tokens, cond + 2, incr)
            \o <<Kw("Semicolon"), Kw("RightBrace"), Kw("RightBrace"), Kw("Eof")>>

ForIsWhile ==
    FullFor(parser.program) =>
        /\ parser.phase /= "failed"
        /\ Len(parser.statements) >= 1 =>
              parser.statements[1] =
                  Parser_declaration(Parser_new(HandWritten(parser.program))).r.v

\* a for statement with the three clauses and a block as body was parsed into
\* a block that begins with the declaration of the initializer
ForIsWhileWitness ==
    /\ FullFor(parser.program)
    /\ parser.program.a = 1 /\ parser.program.d = 2
    /\ parser.phase = "done"
    /\ parser.statements[1].type = "Block"
    /\ parser.statements[1].statements[1].type = "Var"
    /\ parser.statements[1].statements[2].type = "While"
    /\ Parser_declaration(Parser_new(HandWritten(parser.program))).r.ok

\* C17: an assignment whose left-hand side is an identifier gives an Assign node,
\* one whose left-hand side is a property access object.field gives a Set node,
\* and any other left-hand side (literal, grouping, call, binary expression, ...)
\* makes the parser fail with InvalidAssignmentTarget located at the '=' token.
ParseEnded == parser.phase \in {"done", "failed"}
IdentifierTargets == {1, 10}
PropertyTargets == {2}
\* the '=' that follows the target
EqualsOf(prog) == ProgramTokens(prog)[Len(Targets[prog.a]) + 1]

AssignmentTargets ==
    (ParseEnded /\ parser.program.kind = "assign") =>
        IF parser.program.a \in IdentifierTargets
            THEN /\ parser.phase = "done"
                 /\ parser.statements[1].expression.type = "Assign"
                 /\ parser.statements[1].expression.name = ProgramTokens(parser.program)[1]
        ELSE IF parser.program.a \in PropertyTargets
            THEN /\ parser.phase = "done"
                 /\ parser.statements[1].expression.type = "Set"
        ELSE /\ parser.phase = "failed"
             /\ parser.result.err.kind = "InvalidAssignmentTarget"
             /\ parser.result.err.token = EqualsOf(parser.program)

\* C18: lists of parameters and of arguments up to the limit are accepted; one
\* more parameter or argument yields TooManyFunctionArguments as an error value,
\* and the parser does not abort there: it reports the error and goes on parsing
\* the rest of the list.
ListProgram(prog) == prog.kind \in {"call", "fun"}
\* the place of the ')' that closes the list
ListEnd(prog) == (IF prog.kind = "call" THEN 2 ELSE 3) + 2 * prog.a

ArgumentLimit ==
    (ParseEnded /\ ListProgram(parser.program)) =>
        IF parser.program.a <= MAX_FUNCTION_ARGUMENT_COUNT
            THEN /\ parser.phase = "done"
                 /\ parser.program.kind = "call" =>
                       Len(parser.statements[1].expression.arguments) = parser.program.a
                 /\ parser.program.kind = "fun" =>
                       Len(parser.statements[1].params) = parser.program.a
        ELSE /\ ~parser.result.ok
             /\ parser.result.err.kind = "TooManyFunctionArguments"
             /\ parser.p.current >= ListEnd(parser.program)

\* C19: a declaration that begins with the keyword class is parsed into a Class
\* statement with the name of the class, the superclass given after '<' if there
\* is one, and the methods; '.' IDENT after a primary is parsed into a Get
\* expression; so the parser accepts the program
\* class Greet { hello() { print "hi"; } } Greet().hello();
ClassAccepted ==
    (ParseEnded /\ parser.program.kind = "class") =>
        /\ parser.phase = "done"
        /\ Len(parser.statements) = 2
        /\ parser.statements[1].type = "Class"
        /\ parser.statements[1].name.lexeme = "Greet"
        /\ IsNone(parser.statements[1].superclass) <=> parser.program.a = 0
        /\ Len(parser.statements[1].methods) = 1
        /\ parser.statements[1].methods[1].name.lexeme = "hello"
        /\ parser.statements[2].expression.type = "Call"
        /\ parser.statements[2].expression.callee.type = "Get"
        /\ parser.statements[2].expression.callee.name.lexeme = "hello"

\* C20: declaring a name that is already declared in the innermost scope is
\* rejected with "Already a variable with this name in this scope" when that
\* scope is not the global one, whether the declarations are variables,
\* functions, classes or parameters; the same name in a nested scope, or
\* twice at the top level, and two different names are accepted.
Redeclared == pid.c = "same" /\ pid.d = "x"

RedeclarationRule ==
    (pid.name = "declare" /\ phase /= "resolve") =>
        IF Redeclared
            THEN /\ phase = "rejected"
                 /\ outcome = Err(FoxError_resolver(Ident("x", 2),
                                      "Already a variable with this name in this scope"))
            ELSE phase = "run" /\ outcome.ok

RedeclarationRuleWitness ==
    /\ pid.name = "declare" /\ pid.a = "param" /\ pid.b = "class"
    /\ Redeclared
    /\ phase = "rejected"

\* C21: a variable reference is rejected with "Can't read local variable in
\* its own initializer" exactly when the innermost scope holds the name as
\* declared and not yet defined: var x = x; in a block, a function body or a
\* method body.  The same statement at the top level, a reference to a name of
\* an enclosing scope, and a reference to a name already defined are accepted.
InitializerOf(place) == IF place \in {"outer", "defined"} THEN "y" ELSE "x"
OwnInitializer == pid.a /= "global" /\ pid.b = InitializerOf(pid.a)

OwnInitializerRule ==
    (pid.name = "initializer" /\ phase /= "resolve") =>
        IF OwnInitializer
            THEN /\ phase = "rejected"
                 /\ outcome = Err(FoxError_resolver(Ident(pid.b, 5),
                                      "Can't read local variable in its own initializer"))
            ELSE phase = "run" /\ outcome.ok

OwnInitializerRuleWitness ==
    /\ pid.name = "initializer" /\ pid.a = "shadow" /\ pid.c = "argument"
    /\ OwnInitializer
    /\ phase = "rejected"

\* C22: a return is rejected with "Can't return from top-level code" exactly
\* when no function or method encloses it, also after a function or class
\* declaration has ended; a return with a value directly in init is rejected
\* with "Can't return a value from an initializer"; a bare return in init and
\* any return in a function nested in init are accepted.
TopLevelPlaces == {"top", "after_fun", "after_class", "block"}
InitPlaces == {"init", "init_after_fun"}

ReturnRule ==
    (pid.name = "return" /\ phase /= "resolve") =>
        IF pid.a \in TopLevelPlaces
            THEN /\ phase = "rejected"
                 /\ outcome.err.msg = "Can't return from top-level code"
                 /\ outcome.err.token = Token("Return", "return", 9)
        ELSE IF pid.a \in InitPlaces /\ pid.b
            THEN /\ phase = "rejected"
                 /\ outcome.err.msg = "Can't return a value from an initializer"
                 /\ outcome.err.token = Token("Return", "return", 9)
        ELSE phase = "run" /\ outcome.ok

ReturnRuleWitness ==
    /\ pid.name = "return" /\ pid.a = "after_fun" /\ ~pid.b
    /\ phase = "rejected"

\* C23: a variable reference in a function body denotes the same binding on
\* every call.  A name declared in no enclosing scope at the point of the
\* reference is read from (and assigned in) the global environment on every
\* call, also after a variable of that name was declared in an enclosing block;
\* a name declared in an enclosing block keeps denoting that declaration when a
\* nested block declares the name again.
IsPrefix(out, expected) ==
    Len(out) <= Len(expected) /\ out = SubSeq(expected, 1, Len(out))

ScopingOutput ==
    CASE pid.a \in {1, 2} -> <<LiteralValues[pid.b], LiteralValues[pid.b]>>
      [] pid.a = 3 -> <<LiteralValues[pid.b], LiteralValues[pid.c]>>
      [] pid.a = 4 -> <<>>

StaticScoping ==
    pid.name = "scoping" =>
        /\ IsPrefix(interp.out, ScopingOutput)
        /\ phase = "done" => interp.out = ScopingOutput
        /\ pid.a \in 1..3 => phase \notin {"rejected", "failed"}
        /\ pid.a = 4 => phase \in {"resolve", "run", "failed"}

StaticScopingWitness ==
    /\ pid.name = "scoping" /\ pid.a = 1
    /\ phase = "done"
    /\ interp.out = <<LiteralValues[pid.b], LiteralValues[pid.b]>>
    /\ Cardinality(Events("call")) = 2

\* C24: method lookup walks the inheritance chain: a property get on an
\* instance of a subclass finds the method of the class itself first, then a
\* method defined only in a superclass (at any distance), and fails only when
\* no class of the chain defines it; a subclass without init is constructed
\* with the init of its superclass and its arity.
InheritedMethods ==
    pid.name = "inherit" =>
        IF pid.a = 3
            THEN interp.out = <<>> /\ phase /= "done"
            ELSE /\ phase \notin {"rejected", "failed"}
                 /\ phase = "done" => interp.out = <<LiteralValues[pid.b]>>

\* C25: a type mismatch under - / * + (operands that are neither two numbers
\* nor, for +, two strings) and unary minus on a non-number fail with the
\* error kind OperandMustBeNumber, located at the operator token.
ArithmeticMismatch ==
    LET l == OperandValue(operands.l)
        r == OperandValue(operands.r)
    IN  /\ operands.op \in {"Minus", "Slash", "Star", "Plus"}
        /\ ~(l.t = "Double" /\ r.t = "Double")
        /\ ~(operands.op = "Plus" /\ l.t = "Text" /\ r.t = "Text")

OperandMustBeNumberAt(token) ==
    ~outcome.ok /\ outcome.err.kind = "OperandMustBeNumber" /\ outcome.err.token = token

NegatedNonNumber ==
    (phase = "negated" /\ OperandValue(operands.l).t /= "Double") =>
        OperandMustBeNumberAt(Token("Minus", "Debug", 0))

OperandMustBeNumber ==
    /\ (phase = "evaluated" /\ ArithmeticMismatch) =>
           OperandMustBeNumberAt(Token(operands.op, "Debug", 0))
    /\ NegatedNonNumber

\* C26: the global environment is the ultimate ancestor.  In every reachable
\* state the enclosing links from the current environment, from the closure
\* of every function value and from the environment of every bound method
\* end after finitely many hops at the global environment created by
\* Interpreter::new; the globals handle is never replaced.
RECURSIVE Root(_, _, _)
Root(envs, e, hops) ==
    IF hops = 0 THEN 0
    ELSE IF envs[e].enclosing = 0 THEN e
    ELSE Root(envs, envs[e].enclosing, hops - 1)

EndsAtGlobals(e) ==
    /\ e \in 1..Len(interp.envs)
    /\ Root(interp.envs, e, Len(interp.envs)) = interp.globals

Closures(map) == {map[k].closure : k \in {n \in DOMAIN map : map[n].t = "Callee"}}

FunctionClosures ==
    UNION ({Closures(interp.envs[e].values) : e \in 1..Len(interp.envs)}
           \cup {Closures(interp.instances[i].fields) : i \in 1..Len(interp.instances)}
           \cup {Closures(interp.classes[c].methods) : c \in 1..Len(interp.classes)})

GlobalsUltimateAncestor ==
    /\ interp.globals = 1
    /\ interp.envs[1].enclosing = 0
    /\ contains_key(interp.envs[1].values, "clock")
    /\ EndsAtGlobals(interp.environment)
    /\ \A e \in FunctionClosures : EndsAtGlobals(e)
    /\ \A e \in 1..Len(interp.envs) : EndsAtGlobals(e)
    /\ \A i \in Events("call") : EndsAtGlobals(interp.log[i].closure)

\* a bound method (its environment holds this) whose closure is two hops
\* from the globals, and a function value closed over a block
GlobalsUltimateAncestorWitness ==
    /\ phase = "done"
    /\ \E e \in 1..Len(interp.envs) :
          /\ contains_key(interp.envs[e].values, KEYWORD_THIS)
          /\ interp.envs[e].enclosing \notin {0, interp.globals}
          /\ \E i \in Events("call") : interp.log[i].closure = e
    /\ \E e \in FunctionClosures : e /= interp.globals
    /\ GlobalsUltimateAncestor

\* C27: every token the scanner emits carries as lexeme the source substring
\* [start, current) it was scanned from; only the end-of-input token has an
\* empty lexeme.
TokenLexemes ==
    [][Emits =>
         /\ Emitted.token_type /= "Eof" =>
               Emitted.lexeme = Between(scanner'.sc.start, scanner'.sc.current)
         /\ Emitted.lexeme = "" <=> Emitted.token_type = "Eof"]_vars

\* C28: an identifier begins with an ASCII letter or with '_' and continues
\* over letters, digits and '_': a source made of such a run alone (that is not
\* a keyword) scans to one Identifier token followed by end-of-input.
IdentifierSource ==
    /\ Len(Source) > 0
    /\ Source[1] = "_" \/ Source[1] \in Letters
    /\ \A i \in 1..Len(Source) : is_alphanumeric(Source[i])
    /\ keyword_type(Between(0, Len(Source))) = "Identifier"

UnderscoreIdentifier ==
    (Finished /\ IdentifierSource) =>
        /\ scanner.phase = "done"
        /\ Kinds(scanner.result.v) = <<"Identifier", "Eof">>

\* C30: in every scanner state start <= current <= length of the source, and
\* the absolute offset of the location of every token and of the scanner's
\* error lies within [0, length].
InSource(offset) == offset \in 0..Len(Source)

CursorBound ==
    scanner.phase /= "none" =>
        /\ scanner.sc.start <= scanner.sc.current
        /\ InSource(scanner.sc.current)
        /\ \A i \in 1..Len(scanner.tokens) : InSource(scanner.tokens[i].loc.abs_position)
        /\ scanner.phase = "failed" => InSource(scanner.result.err.location.abs_position)

\* C29: a for statement whose condition is omitted is desugared to a while
\* loop whose condition is the literal true, so that its body (and increment)
\* runs until an error or a return leaves the loop.
OmittedCondition(prog) == prog.kind = "for" /\ prog.b = 0

ForLoop ==
    IF parser.program.a = 0 THEN parser.statements[1]
    ELSE parser.statements[1].statements[2]

ForWithoutCondition ==
    (OmittedCondition(parser.program) /\ Len(parser.statements) >= 1) =>
        /\ ForLoop.type = "While"
        /\ ForLoop.condition = Literal(Bool(TRUE))

====
